---- MODULE Spec2Model ----
(***************************************************************************)
(* Presence, room-membership and message-routing engine of the chat        *)
(* server.  Two servers live in the repository and both are modelled:      *)
(*   server = "mem" : the in-memory server (index.js), whose socket        *)
(*                    handlers are synchronous and therefore atomic;       *)
(*   server = "db"  : the database-backed server, whose handlers are       *)
(*                    async functions that suspend at every await.         *)
(* Init chooses the server; the two never mix in one behaviour.            *)
(***************************************************************************)
EXTENDS Integers, Sequences, FiniteSets, TLC

(* ---------------------------- bounds ----------------------------------- *)
MaxUsers == 2
MaxSockets == 2
MaxClock == 1
MaxMembers == 1
MaxStored == 2
MaxRooms == 1
MaxRand == 0
MaxTasks == 2
MaxDbRooms == 1
MaxDbMsgs == 2
MaxAppends == 1002

(* ------------------------ program constants ---------------------------- *)
Capacity == 1000
HistoryLimit == 50

Names == <<"A", "B", "C", "D">>
Usernames == {Names[i] : i \in 1..MaxUsers}
Sockets == 1..MaxSockets
Null == "<null>"
NoStatus == "<none>"
Texts == {"hi"}
Rand == 0..MaxRand
UserIds == 1..MaxUsers

VARIABLES
  server,          \* which server program runs
  conn,            \* socket id -> "idle" | "open" | "closed"
  now,             \* Date.now()
  out,             \* events emitted by the step just taken
  ev,              \* the inbound event the step just taken belongs to
  currentUser,     \* mem: closure variable of each connection
  users,           \* mem: Map username -> {socketId, online, avatar, lastSeen, status}
  rooms,           \* mem: Map roomId -> {name, members, messages, type, createdBy}
  messageHistory,  \* mem: Map userId -> [messages]
  sockUser,        \* db: socket.user, set by the handshake middleware
  ready,           \* db: the connection handler has registered the socket's listeners
  connectedUsers,  \* db: Map userId -> socketId
  dbUsers,         \* db: table users
  dbRooms,         \* db: table rooms
  dbMembers,       \* db: table room_members
  dbMessages,      \* db: table messages
  tasks,           \* db: handler invocations suspended at an await
  received,        \* the receive_* events the clients have got, in order of arrival
  joined,          \* socket.io rooms: the <<socket id, room id>> pairs made by socket.join
  authService,     \* db: the module variable `authService`, assigned by initializeDatabase
  boundAuth,       \* db: the value the auth middlewares were built with at module load
  requests,        \* rateLimiter: Map ip -> timestamps of the requests let through
  limits,          \* rateLimiter: the arguments maxRequests and windowMs
  passed           \* every <<ip, time>> for which rateLimiter has called next()

memVars == <<currentUser, users, rooms, messageHistory>>
dbVars == <<sockUser, ready, connectedUsers, dbUsers, dbRooms, dbMembers, dbMessages, tasks>>
httpVars == <<authService, boundAuth, requests, limits, passed>>
vars == <<server, conn, now, out, ev, memVars, dbVars, received, joined, httpVars>>

(* ------------------- JavaScript Map, in insertion order ---------------- *)
MapHas(m, k) == \E i \in 1..Len(m) : m[i].k = k
MapIdx(m, k) == CHOOSE i \in 1..Len(m) : m[i].k = k
MapGet(m, k) == m[MapIdx(m, k)].v
MapSetAppending(m, k, v) == Append(m, [k |-> k, v |-> v])
MapSet(m, k, v) ==
  IF MapHas(m, k) THEN [m EXCEPT ![MapIdx(m, k)] = [k |-> k, v |-> v]]
  ELSE Append(m, [k |-> k, v |-> v])
MapDelete(m, k) == SelectSeq(m, LAMBDA e : e.k # k)
MapKeys(m) == {m[i].k : i \in 1..Len(m)}

RECURSIVE Flatten(_)
Flatten(ss) == IF ss = <<>> THEN <<>> ELSE Head(ss) \o Flatten(Tail(ss))

Emit(h, name, data) == [to |-> h, ev |-> name, data |-> data]
Event(type, s, who, arg, ok, step, fin) ==
  [type |-> type, sock |-> s, user |-> who, arg |-> arg, ok |-> ok,
   step |-> step, fin |-> fin]
NoEvent == Event("none", 0, Null, Null, FALSE, "none", FALSE)

(* ------------------------- in-memory server ---------------------------- *)
\* sendUserLists(): one user_list per entry of users, sent to its socketId
UserListFor(us, username) ==
  LET others == SelectSeq(us, LAMBDA e : e.k # username)
  IN [i \in 1..Len(others) |->
        [username |-> others[i].k, online |-> others[i].v.online,
         lastSeen |-> others[i].v.lastSeen, avatar |-> others[i].v.avatar,
         status |-> IF others[i].v.status = NoStatus THEN "available"
                    ELSE others[i].v.status]]
sendUserLists(us) ==
  [i \in 1..Len(us) |-> Emit(us[i].v.socketId, "user_list", UserListFor(us, us[i].k))]

\* saveMessage(userId, message)
saveMessageFirstKey(mh, userId, message) ==
  LET key == IF mh = <<>> THEN userId ELSE mh[1].k
      pushed == Append(MapGet(mh, key), message)
      kept == IF Len(pushed) > Capacity THEN Tail(pushed) ELSE pushed
  IN IF mh = <<>> THEN MapSet(mh, userId, <<message>>) ELSE MapSet(mh, key, kept)
saveMessage(mh, userId, message) ==
  LET m1 == IF MapHas(mh, userId) THEN mh ELSE MapSet(mh, userId, <<>>)
      pushed == Append(MapGet(m1, userId), message)
      kept == IF Len(pushed) > Capacity THEN Tail(pushed) ELSE pushed
  IN MapSet(m1, userId, kept)

\* a closing socket leaves every socket.io room it had joined
Left(j, s) == {p \in j : p[1] # s}
MemOpen(s) == server = "mem" /\ conn[s] = "open"
UserOnlineIgnoringFlag(us, name) == MapHas(us, name)
UserOnline(us, name) == MapHas(us, name) /\ MapGet(us, name).online

\* io.on("connection"): the closure starts with currentUser = null
MemConnect(s) ==
  /\ server = "mem" /\ conn[s] = "idle"
  /\ conn' = [conn EXCEPT ![s] = "open"]
  /\ out' = <<>>
  /\ ev' = Event("connection", s, Null, Null, TRUE, "run", TRUE)
  /\ UNCHANGED <<httpVars, server, received, joined, now, memVars, dbVars>>

set_usernameRedelivering(s, username) ==
  /\ MemOpen(s)
  /\ currentUser' = [currentUser EXCEPT ![s] = username]
  /\ users' = MapSet(users, username,
                     [socketId |-> s, online |-> TRUE, avatar |-> Null,
                      lastSeen |-> now, status |-> NoStatus])
  /\ out' = (IF MapHas(messageHistory, username)
             THEN [k \in 1..Len(MapGet(messageHistory, username)) |->
                     Emit(s, "receive_private", MapGet(messageHistory, username)[k])]
             ELSE <<>>)
            \o sendUserLists(users')
  /\ ev' = Event("set_username", s, username, username, TRUE, "run", TRUE)
  /\ UNCHANGED <<httpVars, server, received, joined, conn, now, rooms, messageHistory, dbVars>>
set_username(s, username) ==
  /\ MemOpen(s)
  /\ currentUser' = [currentUser EXCEPT ![s] = username]
  /\ users' = MapSet(users, username,
                     [socketId |-> s, online |-> TRUE, avatar |-> Null,
                      lastSeen |-> now, status |-> NoStatus])
  /\ out' = <<Emit(s, "message_history",
                   IF MapHas(messageHistory, username)
                   THEN MapGet(messageHistory, username) ELSE <<>>)>>
            \o sendUserLists(users')
  /\ ev' = Event("set_username", s, username, username, TRUE, "run", TRUE)
  /\ UNCHANGED <<httpVars, server, received, joined, conn, now, rooms, messageHistory, dbVars>>

send_private(s, to, message, r) ==
  /\ MemOpen(s)
  /\ LET payload == [id |-> <<now, r>>, from |-> currentUser[s], to |-> to,
                     message |-> message, timestamp |-> now, type |-> "private"]
     IN /\ messageHistory' =
             saveMessage(saveMessage(messageHistory, currentUser[s], payload),
                         to, payload)
        /\ out' = (IF UserOnline(users, to)
                   THEN <<Emit(MapGet(users, to).socketId, "receive_private", payload)>>
                   ELSE <<>>)
                  \o <<Emit(s, "message_sent", payload)>>
        /\ ev' = Event("send_private", s, currentUser[s], to, TRUE, "run", TRUE)
  /\ UNCHANGED <<httpVars, server, received, joined, conn, now, currentUser, users, rooms, dbVars>>

SeqContains(q, x) == \E i \in 1..Len(q) : q[i] = x

send_group(s, roomId, message, r) ==
  /\ MemOpen(s)
  /\ IF ~MapHas(rooms, roomId)
        \/ ~SeqContains(MapGet(rooms, roomId).members, currentUser[s])
     THEN /\ out' = <<>>
          /\ ev' = Event("send_group", s, currentUser[s], roomId, FALSE, "run", TRUE)
          /\ UNCHANGED rooms
     ELSE LET room == MapGet(rooms, roomId)
              payload == [id |-> <<now, r>>, from |-> currentUser[s],
                          roomId |-> roomId, message |-> message,
                          timestamp |-> now, type |-> "group"]
          IN /\ rooms' = MapSet(rooms, roomId,
                                [room EXCEPT !.messages = Append(@, payload)])
             /\ out' = Flatten([i \in 1..Len(room.members) |->
                          IF UserOnline(users, room.members[i])
                          THEN <<Emit(MapGet(users, room.members[i]).socketId,
                                      "receive_group", payload)>>
                          ELSE <<>>])
             /\ ev' = Event("send_group", s, currentUser[s], roomId, TRUE, "run", TRUE)
  /\ UNCHANGED <<httpVars, server, received, joined, conn, now, currentUser, users, messageHistory, dbVars>>

create_group(s, groupName, members) ==
  /\ MemOpen(s)
  /\ LET roomId == now
         allMembers == Append(members, currentUser[s])
         created == [roomId |-> roomId, groupName |-> groupName,
                     members |-> allMembers, createdBy |-> currentUser[s]]
     IN /\ rooms' = MapSet(rooms, roomId,
                           [name |-> groupName, members |-> allMembers,
                            messages |-> <<>>, type |-> "group",
                            createdBy |-> currentUser[s]])
        /\ out' = Flatten([i \in 1..Len(allMembers) |->
                     IF UserOnline(users, allMembers[i])
                     THEN <<Emit(MapGet(users, allMembers[i]).socketId,
                                 "group_created", created)>>
                     ELSE <<>>])
        /\ ev' = Event("create_group", s, currentUser[s], roomId, TRUE, "run", TRUE)
  /\ UNCHANGED <<httpVars, server, received, joined, conn, now, currentUser, users, messageHistory, dbVars>>

\* user.online = false; user.lastSeen = new Date().toISOString()
WentOfflineKeepingLastSeen(rec, t) == [rec EXCEPT !.online = FALSE]
WentOffline(rec, t) == [rec EXCEPT !.online = FALSE, !.lastSeen = t]

MemDisconnect(s) ==
  /\ MemOpen(s)
  /\ conn' = [conn EXCEPT ![s] = "closed"]
  /\ IF currentUser[s] # Null /\ MapHas(users, currentUser[s])
     THEN /\ users' = MapSet(users, currentUser[s],
                             WentOffline(MapGet(users, currentUser[s]), now))
          /\ out' = sendUserLists(users')
          /\ ev' = Event("disconnect", s, currentUser[s], Null, TRUE, "run", TRUE)
     ELSE /\ UNCHANGED users
          /\ out' = <<>>
          /\ ev' = Event("disconnect", s, currentUser[s], Null, FALSE, "run", TRUE)
  /\ joined' = Left(joined, s)
  /\ UNCHANGED <<httpVars, server, received, now, currentUser, rooms, messageHistory, dbVars>>

\* the wall clock advances between events
Tick ==
  /\ now < MaxClock
  /\ now' = now + 1
  /\ out' = <<>>
  /\ ev' = NoEvent
  /\ UNCHANGED <<httpVars, server, received, joined, conn, memVars, dbVars>>


(* ----------------------- database-backed server ------------------------ *)
(* Tables follow createTables; the repository classes are called by the    *)
(* handlers below and behave as the design document states.                *)
Username(u) == dbUsers[u].username

\* userRepository.findByUsername: the user's id, 0 when there is none
findByUsername(name) ==
  IF \E u \in UserIds : dbUsers[u].username = name
  THEN CHOOSE u \in UserIds : dbUsers[u].username = name
  ELSE 0
\* userRepository.updateOnlineStatus
updateOnlineStatus(tbl, u, online) ==
  [tbl EXCEPT ![u].is_online = online, ![u].last_seen = now]
\* userRepository.findOnlineUsers
RECURSIVE OnlineRows(_, _)
OnlineRows(tbl, u) ==
  IF u > MaxUsers THEN <<>>
  ELSE (IF tbl[u].is_online
        THEN <<[username |-> tbl[u].username, online |-> TRUE,
                lastSeen |-> tbl[u].last_seen, avatar |-> Null,
                status |-> tbl[u].status]>>
        ELSE <<>>) \o OnlineRows(tbl, u + 1)
findOnlineUsers(tbl) == OnlineRows(tbl, 1)
\* roomRepository.isMember: false for an unknown room
isMember(roomId, u) == <<roomId, u>> \in dbMembers
\* roomRepository.getRoomMembers, in id order
RECURSIVE MembersFrom(_, _, _)
MembersFrom(mem, roomId, u) ==
  IF u > MaxUsers THEN <<>>
  ELSE (IF <<roomId, u>> \in mem THEN <<u>> ELSE <<>>) \o MembersFrom(mem, roomId, u + 1)
getRoomMembers(roomId) == MembersFrom(dbMembers, roomId, 1)
\* roomRepository.addMember: idempotent (PRIMARY KEY (room_id, user_id))
addMember(mem, roomId, u) == mem \cup {<<roomId, u>>}
\* roomRepository.findUserRooms
findUserRooms(u) ==
  SelectSeq([i \in 1..Len(dbRooms) |-> dbRooms[i].id], LAMBDA g : isMember(g, u))
NewRoomId == Len(dbRooms) + 1
RoomRow(id, name, type, by) ==
  [id |-> id, name |-> name, type |-> type, created_by |-> by]
\* roomRepository.createOrFindPrivateRoom: one room per unordered pair
PrivateRoomsOfOrdered(a, b) ==
  {i \in 1..Len(dbRooms) : dbRooms[i].type = "private" /\ dbRooms[i].created_by = a
                           /\ {u \in UserIds : isMember(dbRooms[i].id, u)} = {a, b}}
PrivateRoomsOf(a, b) ==
  {i \in 1..Len(dbRooms) : dbRooms[i].type = "private"
                           /\ {u \in UserIds : isMember(dbRooms[i].id, u)} = {a, b}}
createOrFindPrivateRoom(a, b) ==
  LET found == PrivateRoomsOf(a, b)
  IN IF found # {}
     THEN [id |-> dbRooms[CHOOSE r \in found : \A q \in found : r <= q].id,
           rooms |-> dbRooms, members |-> dbMembers]
     ELSE [id |-> NewRoomId,
           rooms |-> Append(dbRooms, RoomRow(NewRoomId, Null, "private", a)),
           members |-> addMember(addMember(dbMembers, NewRoomId, a), NewRoomId, b)]
\* messageRepository.create: AUTOINCREMENT id
NewMessageId == Len(dbMessages) + 1
MessageRow(roomId, u, content) ==
  [id |-> NewMessageId, room_id |-> roomId, user_id |-> u, content |-> content,
   message_type |-> "text"]
\* messageRepository.findByRoom(roomId, limit): the newest limit rows, oldest first
LastN(q, n) == IF Len(q) <= n THEN q ELSE SubSeq(q, Len(q) - n + 1, Len(q))
findByRoom(roomId, limit) ==
  LastN(SelectSeq(dbMessages, LAMBDA m : m.room_id = roomId), limit)

\* io.emit(name, data): every connected socket
RECURSIVE EmitAllFrom(_, _, _, _)
EmitAllFrom(c, s, name, data) ==
  IF s > MaxSockets THEN <<>>
  ELSE (IF c[s] = "open" THEN <<Emit(s, name, data)>> ELSE <<>>)
       \o EmitAllFrom(c, s + 1, name, data)
ioEmit(c, name, data) == EmitAllFrom(c, 1, name, data)

Task(kind, s, pc, to, room, list, msg, i) ==
  [kind |-> kind, sock |-> s, pc |-> pc, to |-> to, room |-> room,
   list |-> list, msg |-> msg, i |-> i]
RemoveAt(q, i) == SubSeq(q, 1, i - 1) \o SubSeq(q, i + 1, Len(q))
At(i, kind, pc) ==
  server = "db" /\ i \in 1..Len(tasks) /\ tasks[i].kind = kind /\ tasks[i].pc = pc
Goto(i, pc) == [tasks EXCEPT ![i].pc = pc]
DbEvent(t, arg, ok, fin) ==
  Event(t.kind, t.sock, Username(sockUser[t.sock]), arg, ok, t.pc, fin)
DbListening(s) == server = "db" /\ conn[s] = "open" /\ ready[s] /\ Len(tasks) < MaxTasks
Arrive(t) ==
  /\ tasks' = Append(tasks, t)
  /\ out' = <<>>
  /\ ev' = Event(t.kind, t.sock, Username(sockUser[t.sock]), Null, TRUE, "start", FALSE)

\* handshake accepted by authenticateSocket; io.on("connection") starts
DbConnect(s, u) ==
  /\ server = "db" /\ conn[s] = "idle" /\ Len(tasks) < MaxTasks
  /\ conn' = [conn EXCEPT ![s] = "open"]
  /\ sockUser' = [sockUser EXCEPT ![s] = u]
  /\ tasks' = Append(tasks, Task("connection", s, "status", Null, 0, <<>>, Null, 0))
  /\ out' = <<>>
  /\ ev' = Event("connection", s, dbUsers[u].username, Null, TRUE, "start", FALSE)
  /\ UNCHANGED <<httpVars, server, received, joined, now, memVars, ready, connectedUsers, dbUsers, dbRooms,
                 dbMembers, dbMessages>>

\* await updateOnlineStatus(user.id, true); connectedUsers.set(user.id, socket.id)
ConnStatus(i) ==
  /\ At(i, "connection", "status")
  /\ LET t == tasks[i] u == sockUser[t.sock]
     IN /\ dbUsers' = updateOnlineStatus(dbUsers, u, TRUE)
        /\ connectedUsers' = MapSet(connectedUsers, u, t.sock)
        /\ ev' = DbEvent(t, Null, TRUE, FALSE)
  /\ tasks' = Goto(i, "broadcast")
  /\ out' = <<>>
  /\ UNCHANGED <<httpVars, server, received, joined, conn, now, memVars, sockUser, ready, dbRooms, dbMembers,
                 dbMessages>>

\* await broadcastUsersList()
ConnBroadcast(i) ==
  /\ At(i, "connection", "broadcast")
  /\ out' = ioEmit(conn, "user_list", findOnlineUsers(dbUsers))
  /\ ev' = DbEvent(tasks[i], Null, TRUE, FALSE)
  /\ tasks' = Goto(i, "rooms")
  /\ UNCHANGED <<httpVars, server, received, joined, conn, now, memVars, sockUser, ready, connectedUsers, dbUsers,
                 dbRooms, dbMembers, dbMessages>>

\* the listeners are registered once the history loop is over
ConnListen(i, t, rest) ==
  IF rest = <<>>
  THEN /\ tasks' = RemoveAt(tasks, i)
       /\ ready' = [ready EXCEPT ![t.sock] = TRUE]
  ELSE /\ tasks' = [tasks EXCEPT ![i].pc = "history", ![i].list = rest]
       /\ UNCHANGED ready

\* await roomRepository.findUserRooms(user.id)
ConnRooms(i) ==
  /\ At(i, "connection", "rooms")
  /\ LET t == tasks[i] found == findUserRooms(sockUser[t.sock])
     IN /\ ConnListen(i, t, found)
        /\ ev' = DbEvent(t, Null, TRUE, found = <<>>)
  /\ out' = <<>>
  /\ UNCHANGED <<httpVars, server, received, joined, conn, now, memVars, sockUser, connectedUsers, dbUsers,
                 dbRooms, dbMembers, dbMessages>>

\* await messageRepository.findByRoom(room.id, 50); socket.emit("room_history")
ConnHistory(i) ==
  /\ At(i, "connection", "history")
  /\ LET t == tasks[i] g == Head(t.list)
     IN /\ out' = <<Emit(t.sock, "room_history",
                         [roomId |-> g, messages |-> findByRoom(g, HistoryLimit)])>>
        /\ ConnListen(i, t, Tail(t.list))
        /\ ev' = DbEvent(t, g, TRUE, Tail(t.list) = <<>>)
  /\ UNCHANGED <<httpVars, server, received, joined, conn, now, memVars, sockUser, connectedUsers, dbUsers,
                 dbRooms, dbMembers, dbMessages>>

\* the transport closes; the disconnect listener runs if it is registered
DbDisconnect(s) ==
  /\ server = "db" /\ conn[s] = "open"
  /\ ready[s] => Len(tasks) < MaxTasks
  /\ conn' = [conn EXCEPT ![s] = "closed"]
  /\ tasks' = IF ready[s]
              THEN Append(tasks, Task("disconnect", s, "status", Null, 0, <<>>, Null, 0))
              ELSE tasks
  /\ out' = <<>>
  /\ ev' = Event("disconnect", s, Username(sockUser[s]), Null, ready[s], "start", ~ready[s])
  /\ joined' = Left(joined, s)
  /\ UNCHANGED <<httpVars, server, received, now, memVars, sockUser, ready, connectedUsers, dbUsers,
                 dbRooms, dbMembers, dbMessages>>

\* await updateOnlineStatus(user.id, false); connectedUsers.delete(user.id)
DiscStatus(i) ==
  /\ At(i, "disconnect", "status")
  /\ LET t == tasks[i] u == sockUser[t.sock]
     IN /\ dbUsers' = updateOnlineStatus(dbUsers, u, FALSE)
        /\ connectedUsers' = MapDelete(connectedUsers, u)
        /\ ev' = DbEvent(t, Null, TRUE, FALSE)
  /\ tasks' = Goto(i, "broadcast")
  /\ out' = <<>>
  /\ UNCHANGED <<httpVars, server, received, joined, conn, now, memVars, sockUser, ready, dbRooms, dbMembers,
                 dbMessages>>

DiscBroadcast(i) ==
  /\ At(i, "disconnect", "broadcast")
  /\ out' = ioEmit(conn, "user_list", findOnlineUsers(dbUsers))
  /\ ev' = DbEvent(tasks[i], Null, TRUE, TRUE)
  /\ tasks' = RemoveAt(tasks, i)
  /\ UNCHANGED <<httpVars, server, received, joined, conn, now, memVars, sockUser, ready, connectedUsers, dbUsers,
                 dbRooms, dbMembers, dbMessages>>

ErrorEvent(s, text) == Emit(s, "error", [message |-> text])

\* socket.on("send_private")
DbSendPrivate(s, to, message) ==
  /\ DbListening(s)
  /\ Arrive(Task("send_private", s, "find", to, 0, <<>>, message, 0))
  /\ UNCHANGED <<httpVars, server, received, joined, conn, now, memVars, sockUser, ready, connectedUsers, dbUsers,
                 dbRooms, dbMembers, dbMessages>>

\* await userRepository.findByUsername(to)
PrivFind(i) ==
  /\ At(i, "send_private", "find")
  /\ LET t == tasks[i] target == findByUsername(t.to)
     IN IF target = 0
        THEN /\ out' = <<ErrorEvent(t.sock, "Usuario nao encontrado")>>
             /\ tasks' = RemoveAt(tasks, i)
             /\ ev' = DbEvent(t, t.to, FALSE, TRUE)
        ELSE /\ out' = <<>>
             /\ tasks' = [tasks EXCEPT ![i].pc = "room", ![i].i = target]
             /\ ev' = DbEvent(t, t.to, TRUE, FALSE)
  /\ UNCHANGED <<httpVars, server, received, joined, conn, now, memVars, sockUser, ready, connectedUsers, dbUsers,
                 dbRooms, dbMembers, dbMessages>>

\* await roomRepository.createOrFindPrivateRoom(user.id, targetUser.id)
PrivRoom(i) ==
  /\ At(i, "send_private", "room")
  /\ LET t == tasks[i] u == sockUser[t.sock] target == t.i
         room == createOrFindPrivateRoom(u, target)
     IN IF u = target
        THEN /\ out' = <<ErrorEvent(t.sock, "Erro ao enviar mensagem")>>
             /\ tasks' = RemoveAt(tasks, i)
             /\ ev' = DbEvent(t, t.to, FALSE, TRUE)
             /\ UNCHANGED <<dbRooms, dbMembers>>
        ELSE /\ out' = <<>>
             /\ dbRooms' = room.rooms
             /\ dbMembers' = room.members
             /\ tasks' = [tasks EXCEPT ![i].pc = "save", ![i].room = room.id]
             /\ ev' = DbEvent(t, t.to, TRUE, FALSE)
  /\ UNCHANGED <<httpVars, server, received, joined, conn, now, memVars, sockUser, ready, connectedUsers, dbUsers,
                 dbMessages>>

\* await messageRepository.create(messageData), then the two emits
PrivSaveDeliveringFirst(i, saved) ==
  /\ At(i, "send_private", "save")
  /\ LET t == tasks[i] u == sockUser[t.sock]
         payload == [id |-> NewMessageId, from |-> Username(u), to |-> t.to,
                     message |-> t.msg, timestamp |-> now, type |-> "private"]
         sent == (IF MapHas(connectedUsers, t.i)
                  THEN <<Emit(MapGet(connectedUsers, t.i), "receive_private", payload)>>
                  ELSE <<>>)
                 \o <<Emit(t.sock, "message_sent", payload)>>
     IN IF saved
        THEN /\ dbMessages' = Append(dbMessages, MessageRow(t.room, u, t.msg))
             /\ out' = sent
             /\ ev' = DbEvent(t, t.to, TRUE, TRUE)
        ELSE /\ UNCHANGED dbMessages
             /\ out' = sent \o <<ErrorEvent(t.sock, "Erro ao enviar mensagem")>>
             /\ ev' = DbEvent(t, t.to, FALSE, TRUE)
  /\ tasks' = RemoveAt(tasks, i)
  /\ UNCHANGED <<httpVars, server, received, joined, conn, now, memVars, sockUser, ready, connectedUsers, dbUsers,
                 dbRooms, dbMembers>>
PrivSave(i, saved) ==
  /\ At(i, "send_private", "save")
  /\ LET t == tasks[i] u == sockUser[t.sock]
         payload == [id |-> NewMessageId, from |-> Username(u), to |-> t.to,
                     message |-> t.msg, timestamp |-> now, type |-> "private"]
     IN IF saved
        THEN /\ dbMessages' = Append(dbMessages, MessageRow(t.room, u, t.msg))
             /\ out' = (IF MapHas(connectedUsers, t.i)
                        THEN <<Emit(MapGet(connectedUsers, t.i), "receive_private",
                                    payload)>>
                        ELSE <<>>)
                       \o <<Emit(t.sock, "message_sent", payload)>>
             /\ ev' = DbEvent(t, t.to, TRUE, TRUE)
        ELSE /\ UNCHANGED dbMessages
             /\ out' = <<ErrorEvent(t.sock, "Erro ao enviar mensagem")>>
             /\ ev' = DbEvent(t, t.to, FALSE, TRUE)
  /\ tasks' = RemoveAt(tasks, i)
  /\ UNCHANGED <<httpVars, server, received, joined, conn, now, memVars, sockUser, ready, connectedUsers, dbUsers,
                 dbRooms, dbMembers>>

\* socket.on("send_group")
DbSendGroup(s, roomId, message) ==
  /\ DbListening(s)
  /\ Arrive(Task("send_group", s, "member", Null, roomId, <<>>, message, 0))
  /\ UNCHANGED <<httpVars, server, received, joined, conn, now, memVars, sockUser, ready, connectedUsers, dbUsers,
                 dbRooms, dbMembers, dbMessages>>

\* await roomRepository.isMember(roomId, user.id)
GroupMember(i) ==
  /\ At(i, "send_group", "member")
  /\ LET t == tasks[i]
     IN IF ~isMember(t.room, sockUser[t.sock])
        THEN /\ out' = <<ErrorEvent(t.sock, "Voce nao e membro deste grupo")>>
             /\ tasks' = RemoveAt(tasks, i)
             /\ ev' = DbEvent(t, t.room, FALSE, TRUE)
        ELSE /\ out' = <<>>
             /\ tasks' = Goto(i, "save")
             /\ ev' = DbEvent(t, t.room, TRUE, FALSE)
  /\ UNCHANGED <<httpVars, server, received, joined, conn, now, memVars, sockUser, ready, connectedUsers, dbUsers,
                 dbRooms, dbMembers, dbMessages>>

\* await messageRepository.create(messageData)
GroupSave(i, saved) ==
  /\ At(i, "send_group", "save")
  /\ LET t == tasks[i]
     IN IF saved
        THEN /\ dbMessages' = Append(dbMessages,
                                     MessageRow(t.room, sockUser[t.sock], t.msg))
             /\ out' = <<>>
             /\ tasks' = [tasks EXCEPT ![i].pc = "fanout", ![i].i = NewMessageId]
             /\ ev' = DbEvent(t, t.room, TRUE, FALSE)
        ELSE /\ UNCHANGED dbMessages
             /\ out' = <<ErrorEvent(t.sock, "Erro ao enviar mensagem")>>
             /\ tasks' = RemoveAt(tasks, i)
             /\ ev' = DbEvent(t, t.room, FALSE, TRUE)
  /\ UNCHANGED <<httpVars, server, received, joined, conn, now, memVars, sockUser, ready, connectedUsers, dbUsers,
                 dbRooms, dbMembers>>

\* await roomRepository.getRoomMembers(roomId), then the fan-out
GroupFanout(i) ==
  /\ At(i, "send_group", "fanout")
  /\ LET t == tasks[i]
         payload == [id |-> t.i, from |-> Username(sockUser[t.sock]),
                     roomId |-> t.room, message |-> t.msg, timestamp |-> now,
                     type |-> "group"]
         members == getRoomMembers(t.room)
     IN /\ out' = Flatten([k \in 1..Len(members) |->
                     IF MapHas(connectedUsers, members[k])
                     THEN <<Emit(MapGet(connectedUsers, members[k]), "receive_group",
                                 payload)>>
                     ELSE <<>>])
        /\ ev' = DbEvent(t, t.room, TRUE, TRUE)
  /\ tasks' = RemoveAt(tasks, i)
  /\ UNCHANGED <<httpVars, server, received, joined, conn, now, memVars, sockUser, ready, connectedUsers, dbUsers,
                 dbRooms, dbMembers, dbMessages>>

\* socket.on("create_group")
DbCreateGroup(s, groupName, members) ==
  /\ DbListening(s)
  /\ Arrive(Task("create_group", s, "create", groupName, 0, members, Null, 1))
  /\ UNCHANGED <<httpVars, server, received, joined, conn, now, memVars, sockUser, ready, connectedUsers, dbUsers,
                 dbRooms, dbMembers, dbMessages>>

\* await roomRepository.create({name, type: 'group', created_by})
GroupCreate(i) ==
  /\ At(i, "create_group", "create")
  /\ LET t == tasks[i]
     IN /\ dbRooms' = Append(dbRooms, RoomRow(NewRoomId, t.to, "group", sockUser[t.sock]))
        /\ tasks' = [tasks EXCEPT ![i].pc = "addCreator", ![i].room = NewRoomId]
        /\ ev' = DbEvent(t, NewRoomId, TRUE, FALSE)
  /\ out' = <<>>
  /\ UNCHANGED <<httpVars, server, received, joined, conn, now, memVars, sockUser, ready, connectedUsers, dbUsers,
                 dbMembers, dbMessages>>

GroupCreatedWithoutCreator(t) ==
  [roomId |-> t.room, groupName |-> t.to, members |-> t.list,
   createdBy |-> Username(sockUser[t.sock])]
GroupCreated(t) ==
  [roomId |-> t.room, groupName |-> t.to,
   members |-> <<Username(sockUser[t.sock])>> \o t.list,
   createdBy |-> Username(sockUser[t.sock])]
\* the loop over members goes on at index k, or ends with the creator's notice
GroupLoop(i, t, k, emitted) ==
  IF k > Len(t.list)
  THEN /\ out' = emitted \o <<Emit(t.sock, "group_created", GroupCreated(t))>>
       /\ tasks' = RemoveAt(tasks, i)
  ELSE /\ out' = emitted
       /\ tasks' = [tasks EXCEPT ![i].pc = "find", ![i].i = k]

\* await roomRepository.addMember(room.id, user.id)
GroupAddCreator(i) ==
  /\ At(i, "create_group", "addCreator")
  /\ LET t == tasks[i]
     IN /\ dbMembers' = addMember(dbMembers, t.room, sockUser[t.sock])
        /\ GroupLoop(i, t, 1, <<>>)
        /\ ev' = DbEvent(t, t.room, TRUE, Len(t.list) = 0)
  /\ UNCHANGED <<httpVars, server, received, joined, conn, now, memVars, sockUser, ready, connectedUsers, dbUsers,
                 dbRooms, dbMessages>>

\* await userRepository.findByUsername(memberUsername)
GroupFind(i) ==
  /\ At(i, "create_group", "find")
  /\ LET t == tasks[i] member == findByUsername(t.list[t.i])
     IN IF member = 0
        THEN /\ GroupLoop(i, t, t.i + 1, <<>>)
             /\ ev' = DbEvent(t, t.room, FALSE, t.i + 1 > Len(t.list))
        ELSE /\ out' = <<>>
             /\ tasks' = Goto(i, "add")
             /\ ev' = DbEvent(t, t.room, TRUE, FALSE)
  /\ UNCHANGED <<httpVars, server, received, joined, conn, now, memVars, sockUser, ready, connectedUsers, dbUsers,
                 dbRooms, dbMembers, dbMessages>>

\* await roomRepository.addMember(room.id, member.id), then the member's notice
GroupAdd(i) ==
  /\ At(i, "create_group", "add")
  /\ LET t == tasks[i] member == findByUsername(t.list[t.i])
     IN /\ dbMembers' = addMember(dbMembers, t.room, member)
        /\ GroupLoop(i, t, t.i + 1,
                     IF MapHas(connectedUsers, member)
                     THEN <<Emit(MapGet(connectedUsers, member), "group_created",
                                 GroupCreated(t))>>
                     ELSE <<>>)
        /\ ev' = DbEvent(t, t.room, TRUE, t.i + 1 > Len(t.list))
  /\ UNCHANGED <<httpVars, server, received, joined, conn, now, memVars, sockUser, ready, connectedUsers, dbUsers,
                 dbRooms, dbMessages>>


(* ----------------------------- bounding -------------------------------- *)
RECURSIVE SumLen(_)
SumLen(m) == IF m = <<>> THEN 0 ELSE Len(Head(m).v) + SumLen(Tail(m))
RECURSIVE SumRoomLen(_)
SumRoomLen(m) == IF m = <<>> THEN 0 ELSE Len(Head(m).v.messages) + SumRoomLen(Tail(m))
MemStored == SumLen(messageHistory) + SumRoomLen(rooms)

RECURSIVE SeqsUpTo(_, _)
SeqsUpTo(S, n) ==
  IF n = 0 THEN {<<>>}
  ELSE SeqsUpTo(S, n - 1) \cup
       {Append(q, x) : q \in {p \in SeqsUpTo(S, n - 1) : Len(p) = n - 1}, x \in S}
MemberLists == SeqsUpTo(Usernames, MaxMembers)
RoomIds == 0..MaxClock
DbRoomIds == 1..MaxDbRooms

Pending(kinds) == Cardinality({i \in 1..Len(tasks) : tasks[i].kind \in kinds})

\* the HTTP side once startServer() has run: initializeDatabase has assigned
\* authService; the middlewares were built while it was still undefined; the
\* limiter of /api/auth/register has seen no request
RegisterLimits == [maxRequests |-> 5, windowMs |-> 900000]
HttpInit ==
  /\ authService = "ready"
  /\ boundAuth = "undefined"
  /\ requests = <<>>
  /\ limits = RegisterLimits
  /\ passed = <<>>
MemInit ==
  /\ currentUser = [s \in Sockets |-> Null]
  /\ users = <<>>
  /\ rooms = <<>>
  /\ messageHistory = <<>>
\* the accounts exist (registration is an HTTP route); the tables are otherwise empty
DbInit ==
  /\ sockUser = [s \in Sockets |-> 1]
  /\ ready = [s \in Sockets |-> FALSE]
  /\ connectedUsers = <<>>
  /\ dbUsers = [u \in UserIds |->
                  [username |-> Names[u], is_online |-> FALSE, last_seen |-> 0,
                   status |-> "available"]]
  /\ dbRooms = <<>>
  /\ dbMembers = {}
  /\ dbMessages = <<>>
  /\ tasks = <<>>

Init ==
  /\ server \in {"mem", "db"}
  /\ conn = [s \in Sockets |-> "idle"]
  /\ now = 0
  /\ out = <<>>
  /\ ev = NoEvent
  /\ received = <<>>
  /\ joined = {}
  /\ HttpInit
  /\ MemInit
  /\ DbInit

NextMem ==
  \/ \E s \in Sockets : MemConnect(s)
  \/ \E s \in Sockets, u \in Usernames : set_username(s, u)
  \/ \E s \in Sockets, to \in Usernames, m \in Texts, r \in Rand :
       MemStored + 2 <= MaxStored /\ send_private(s, to, m, r)
  \/ \E s \in Sockets, g \in RoomIds, m \in Texts, r \in Rand :
       MemStored + 1 <= MaxStored /\ send_group(s, g, m, r)
  \/ \E s \in Sockets, ms \in MemberLists :
       (MapHas(rooms, now) \/ Len(rooms) < MaxRooms) /\ create_group(s, "devs", ms)
  \/ \E s \in Sockets : MemDisconnect(s)

NextDb ==
  \/ \E s \in Sockets, u \in UserIds : DbConnect(s, u)
  \/ \E i \in 1..MaxTasks : ConnStatus(i)
  \/ \E i \in 1..MaxTasks : ConnBroadcast(i)
  \/ \E i \in 1..MaxTasks : ConnRooms(i)
  \/ \E i \in 1..MaxTasks : ConnHistory(i)
  \/ \E s \in Sockets : DbDisconnect(s)
  \/ \E i \in 1..MaxTasks : DiscStatus(i)
  \/ \E i \in 1..MaxTasks : DiscBroadcast(i)
  \/ \E s \in Sockets, to \in Usernames, m \in Texts :
       /\ Len(dbMessages) + Pending({"send_private", "send_group"}) < MaxDbMsgs
       /\ Len(dbRooms) + Pending({"create_group"}) < MaxDbRooms
          \/ \E i \in 1..Len(dbRooms) : dbRooms[i].type = "private"
       /\ DbSendPrivate(s, to, m)
  \/ \E i \in 1..MaxTasks : PrivFind(i)
  \/ \E i \in 1..MaxTasks : PrivRoom(i)
  \/ \E i \in 1..MaxTasks, saved \in BOOLEAN : PrivSave(i, saved)
  \/ \E s \in Sockets, g \in DbRoomIds, m \in Texts :
       /\ Len(dbMessages) + Pending({"send_private", "send_group"}) < MaxDbMsgs
       /\ DbSendGroup(s, g, m)
  \/ \E i \in 1..MaxTasks : GroupMember(i)
  \/ \E i \in 1..MaxTasks, saved \in BOOLEAN : GroupSave(i, saved)
  \/ \E i \in 1..MaxTasks : GroupFanout(i)
  \/ \E s \in Sockets, ms \in MemberLists :
       /\ Len(dbRooms) + Pending({"send_private", "create_group"}) < MaxDbRooms
       /\ DbCreateGroup(s, "devs", ms)
  \/ \E i \in 1..MaxTasks : GroupCreate(i)
  \/ \E i \in 1..MaxTasks : GroupAddCreator(i)
  \/ \E i \in 1..MaxTasks : GroupFind(i)
  \/ \E i \in 1..MaxTasks : GroupAdd(i)

Next == NextMem \/ NextDb \/ Tick

Spec == Init /\ [][Next]_vars

\* the database-backed server on its own
NextDbOnly == NextDb \/ Tick
InitDb == Init /\ server = "db"
SpecDb == InitDb /\ [][NextDbOnly]_vars

\* one sender filling one conversation: user A on socket 1, the room it created
\* at time 0, and numbered messages sent either to B or into that room
HistRoom ==
  [name |-> "devs", members |-> <<"A">>, messages |-> <<>>, type |-> "group",
   createdBy |-> "A"]
InitHist ==
  /\ server = "mem"
  /\ conn = [s \in Sockets |-> IF s = 1 THEN "open" ELSE "idle"]
  /\ now = 0
  /\ currentUser = [s \in Sockets |-> IF s = 1 THEN "A" ELSE Null]
  /\ users = <<[k |-> "A", v |-> [socketId |-> 1, online |-> TRUE, avatar |-> Null,
                                  lastSeen |-> 0, status |-> NoStatus]]>>
  /\ rooms = <<[k |-> 0, v |-> HistRoom]>>
  /\ messageHistory = <<>>
  /\ out = <<Emit(1, "group_created",
                  [roomId |-> 0, groupName |-> "devs", members |-> <<"A">>,
                   createdBy |-> "A"])>>
  /\ ev = Event("create_group", 1, "A", 0, TRUE, "run", TRUE)
  /\ received = <<>>
  /\ joined = {}
  /\ HttpInit
  /\ DbInit
Last(q) == q[Len(q)]
HistSent ==
  IF messageHistory # <<>> THEN Last(MapGet(messageHistory, "A")).message
  ELSE IF MapGet(rooms, 0).messages # <<>> THEN Last(MapGet(rooms, 0).messages).message
  ELSE 0
HistSendPrivate ==
  /\ MapGet(rooms, 0).messages = <<>>
  /\ HistSent < MaxAppends
  /\ send_private(1, "B", HistSent + 1, 0)
HistSendGroup ==
  /\ messageHistory = <<>>
  /\ HistSent < MaxAppends
  /\ send_group(1, 0, HistSent + 1, 0)
NextHist == HistSendPrivate \/ HistSendGroup
SpecHist == InitHist /\ [][NextHist]_vars

\* the connection handler awaits outside any try: a rejected repository call
\* is an unhandled rejection, and process.on('unhandledRejection') exits
Exit(c) == [s \in DOMAIN c |-> IF c[s] = "open" THEN "closed" ELSE c[s]]
ConnRejects(i) ==
  /\ server = "db" /\ i \in 1..Len(tasks)
  /\ tasks[i].kind = "connection" /\ tasks[i].pc \in {"status", "rooms", "history"}
  /\ server' = "crashed"
  /\ conn' = Exit(conn)
  /\ tasks' = <<>>
  /\ out' = <<>>
  /\ ev' = DbEvent(tasks[i], Null, FALSE, TRUE)
  /\ UNCHANGED <<httpVars, received, joined, now, memVars, sockUser, ready, connectedUsers, dbUsers,
                 dbRooms, dbMembers, dbMessages>>
\* broadcastUsersList catches a rejected findOnlineUsers and only logs it
ConnBroadcastFails(i) ==
  /\ At(i, "connection", "broadcast")
  /\ out' = <<>>
  /\ ev' = DbEvent(tasks[i], Null, FALSE, FALSE)
  /\ tasks' = Goto(i, "rooms")
  /\ UNCHANGED <<httpVars, server, received, joined, conn, now, memVars, sockUser, ready, connectedUsers,
                 dbUsers, dbRooms, dbMembers, dbMessages>>
NextCrash ==
  \/ NextDbOnly
  \/ \E i \in 1..MaxTasks : ConnRejects(i)
  \/ \E i \in 1..MaxTasks : ConnBroadcastFails(i)
SpecCrash == InitDb /\ [][NextCrash]_vars

\* search_messages of the in-memory server; message texts and queries are
\* sequences of characters so that case and position are visible
MaxLen == 2
MaxQueryLen == 1
MaxSearchMsgs == 2
Chars == {"a", "A", "b"}
Contents == SeqsUpTo(Chars, MaxLen)
Queries == SeqsUpTo(Chars, MaxQueryLen)
LowerOf(c) == IF c = "A" THEN "a" ELSE c
\* String.prototype.toLowerCase
toLowerCaseKeepingCase(str) == str
toLowerCase(str) == [i \in 1..Len(str) |-> LowerOf(str[i])]
\* String.prototype.includes
includes(str, part) ==
  \E i \in 1..(Len(str) - Len(part) + 1) : SubSeq(str, i, i + Len(part) - 1) = part
\* socket.on("search_messages"); a payload without query makes query.toLowerCase()
\* throw as soon as there is a message to test, and nothing catches it
search_messages(s, query, defined) ==
  /\ MemOpen(s)
  /\ LET userMessages == IF MapHas(messageHistory, currentUser[s])
                         THEN MapGet(messageHistory, currentUser[s]) ELSE <<>>
         filteredMessages ==
           SelectSeq(userMessages,
                     LAMBDA msg : includes(toLowerCase(msg.message), toLowerCase(query)))
     IN IF defined \/ userMessages = <<>>
        THEN /\ out' = <<Emit(s, "search_results",
                              IF defined THEN filteredMessages ELSE <<>>)>>
             /\ ev' = Event("search_messages", s, currentUser[s], query, defined, "run", TRUE)
             /\ UNCHANGED <<server, conn>>
        ELSE /\ server' = "crashed"
             /\ conn' = Exit(conn)
             /\ out' = <<>>
             /\ ev' = Event("search_messages", s, currentUser[s], query, FALSE, "run", TRUE)
  /\ UNCHANGED <<httpVars, received, joined, now, memVars, dbVars>>
\* A is registered on socket 1 and sends texts to B, then searches its inbox
InitSearch ==
  /\ server = "mem"
  /\ conn = [s \in Sockets |-> IF s = 1 THEN "open" ELSE "idle"]
  /\ now = 0
  /\ currentUser = [s \in Sockets |-> IF s = 1 THEN "A" ELSE Null]
  /\ users = <<[k |-> "A", v |-> [socketId |-> 1, online |-> TRUE, avatar |-> Null,
                                  lastSeen |-> 0, status |-> NoStatus]]>>
  /\ rooms = <<>>
  /\ messageHistory = <<>>
  /\ out = <<Emit(1, "message_history", <<>>), Emit(1, "user_list", <<>>)>>
  /\ ev = Event("set_username", 1, "A", "A", TRUE, "run", TRUE)
  /\ received = <<>>
  /\ joined = {}
  /\ HttpInit
  /\ DbInit
SearchSend ==
  \E c \in Contents :
    /\ IF MapHas(messageHistory, "A")
       THEN Len(MapGet(messageHistory, "A")) < MaxSearchMsgs ELSE TRUE
    /\ send_private(1, "B", c, 0)
SearchQuery == \E q \in Queries : search_messages(1, q, TRUE)
SearchNoQuery == search_messages(1, <<>>, FALSE)
NextSearch == SearchSend \/ SearchQuery \/ SearchNoQuery
SpecSearch == InitSearch /\ [][NextSearch]_vars

\* two connected users in one group: A on socket 1, B on socket 2, the group
\* room 1 created by A with B; A sends into the room and to B, and the
\* transport hands the emitted receive_* events to the clients in order
MaxOrderMsgs == 2
IsReceive(e) == e.ev \in {"receive_private", "receive_group"}
Observed == \A k \in 1..Len(out) : ~IsReceive(out[k])
Observe ==
  /\ ~Observed
  /\ received' = received \o SelectSeq(out, IsReceive)
  /\ out' = <<>>
  /\ UNCHANGED <<httpVars, server, joined, conn, now, ev, memVars, dbVars>>
InitOrder ==
  /\ server = "db"
  /\ conn = [s \in Sockets |-> IF s <= 2 THEN "open" ELSE "idle"]
  /\ now = 0
  /\ out = <<>>
  /\ ev = NoEvent
  /\ received = <<>>
  /\ joined = {}
  /\ HttpInit
  /\ MemInit
  /\ sockUser = [s \in Sockets |-> IF s = 2 THEN 2 ELSE 1]
  /\ ready = [s \in Sockets |-> s <= 2]
  /\ connectedUsers = <<[k |-> 1, v |-> 1], [k |-> 2, v |-> 2]>>
  /\ dbUsers = [u \in UserIds |->
                  [username |-> Names[u], is_online |-> u <= 2, last_seen |-> 0,
                   status |-> "available"]]
  /\ dbRooms = <<RoomRow(1, "devs", "group", 1)>>
  /\ dbMembers = {<<1, 1>>, <<1, 2>>}
  /\ dbMessages = <<>>
  /\ tasks = <<>>
OrderRoom == Len(dbMessages) + Pending({"send_private", "send_group"}) < MaxOrderMsgs
NextOrder ==
  \/ Observe
  \/ \E m \in Texts : Observed /\ OrderRoom /\ DbSendGroup(1, 1, m)
  \/ \E i \in 1..MaxTasks : Observed /\ GroupMember(i)
  \/ \E i \in 1..MaxTasks, saved \in BOOLEAN : Observed /\ GroupSave(i, saved)
  \/ \E i \in 1..MaxTasks : Observed /\ GroupFanout(i)
  \/ \E m \in Texts : Observed /\ OrderRoom /\ DbSendPrivate(1, "B", m)
  \/ \E i \in 1..MaxTasks : Observed /\ PrivFind(i)
  \/ \E i \in 1..MaxTasks : Observed /\ PrivRoom(i)
  \/ \E i \in 1..MaxTasks, saved \in BOOLEAN : Observed /\ PrivSave(i, saved)
SpecOrder == InitOrder /\ [][NextOrder]_vars

(* ---------------- socket.io rooms and typing indicators ---------------- *)
\* socket.to(roomId).emit(name, data): every socket in the socket.io room
\* except the sender's own
RECURSIVE EmitRoomFrom(_, _, _, _, _)
EmitRoomFrom(h, from, roomId, name, data) ==
  IF h > MaxSockets THEN <<>>
  ELSE (IF <<h, roomId>> \in joined /\ h # from /\ conn[h] = "open"
        THEN <<Emit(h, name, data)>> ELSE <<>>)
       \o EmitRoomFrom(h + 1, from, roomId, name, data)
socketTo(from, roomId, name, data) == EmitRoomFrom(1, from, roomId, name, data)
TypingEvents == {"typing", "stop_typing"}
NoTarget == "<undefined>"

\* index.js socket.on("join_room"): no membership test
join_room(s, roomId) ==
  /\ MemOpen(s)
  /\ joined' = joined \cup {<<s, roomId>>}
  /\ out' = IF MapHas(rooms, roomId)
            THEN <<Emit(s, "room_history", MapGet(rooms, roomId).messages)>>
            ELSE <<>>
  /\ ev' = Event("join_room", s, currentUser[s], roomId, TRUE, "run", TRUE)
  /\ UNCHANGED <<httpVars, server, received, conn, now, memVars, dbVars>>

\* index.js socket.on("leave_room")
leave_room(s, roomId) ==
  /\ MemOpen(s)
  /\ joined' = joined \ {<<s, roomId>>}
  /\ out' = <<>>
  /\ ev' = Event("leave_room", s, currentUser[s], roomId, TRUE, "run", TRUE)
  /\ UNCHANGED <<httpVars, server, received, conn, now, memVars, dbVars>>

\* index.js socket.on("typing") and socket.on("stop_typing"), which differ in
\* the event name only; to = NoTarget stands for a payload without `to`
typingIgnoringFlag(s, name, to, roomId) ==
  /\ MemOpen(s)
  /\ out' = IF to # NoTarget
            THEN IF UserOnlineIgnoringFlag(users, to)
                 THEN <<Emit(MapGet(users, to).socketId, name,
                             [from |-> currentUser[s], type |-> "private"])>>
                 ELSE <<>>
            ELSE socketTo(s, roomId, name,
                          [from |-> currentUser[s], type |-> "group",
                           roomId |-> roomId])
  /\ ev' = Event(name, s, currentUser[s],
                 IF to # NoTarget THEN [to |-> to] ELSE [roomId |-> roomId],
                 TRUE, "run", TRUE)
  /\ UNCHANGED <<httpVars, server, received, joined, conn, now, memVars, dbVars>>
typing(s, name, to, roomId) ==
  /\ MemOpen(s)
  /\ out' = IF to # NoTarget
            THEN IF UserOnline(users, to)
                 THEN <<Emit(MapGet(users, to).socketId, name,
                             [from |-> currentUser[s], type |-> "private"])>>
                 ELSE <<>>
            ELSE socketTo(s, roomId, name,
                          [from |-> currentUser[s], type |-> "group",
                           roomId |-> roomId])
  /\ ev' = Event(name, s, currentUser[s],
                 IF to # NoTarget THEN [to |-> to] ELSE [roomId |-> roomId],
                 TRUE, "run", TRUE)
  /\ UNCHANGED <<httpVars, server, received, joined, conn, now, memVars, dbVars>>

\* database-backed socket.on("join_room")
DbJoinRoom(s, roomId) ==
  /\ DbListening(s)
  /\ Arrive(Task("join_room", s, "member", Null, roomId, <<>>, Null, 0))
  /\ UNCHANGED <<httpVars, server, received, joined, conn, now, memVars, sockUser, ready,
                 connectedUsers, dbUsers, dbRooms, dbMembers, dbMessages>>

\* await roomRepository.isMember(roomId, user.id); socket.join(roomId)
JoinMember(i) ==
  /\ At(i, "join_room", "member")
  /\ LET t == tasks[i]
     IN IF isMember(t.room, sockUser[t.sock])
        THEN /\ joined' = IF conn[t.sock] = "open"
                          THEN joined \cup {<<t.sock, t.room>>} ELSE joined
             /\ out' = <<>>
             /\ tasks' = Goto(i, "history")
             /\ ev' = DbEvent(t, t.room, TRUE, FALSE)
        ELSE /\ UNCHANGED joined
             /\ out' = <<ErrorEvent(t.sock, "Acesso negado a esta sala")>>
             /\ tasks' = RemoveAt(tasks, i)
             /\ ev' = DbEvent(t, t.room, FALSE, TRUE)
  /\ UNCHANGED <<httpVars, server, received, conn, now, memVars, sockUser, ready, connectedUsers,
                 dbUsers, dbRooms, dbMembers, dbMessages>>

\* await messageRepository.findByRoom(roomId, 50); socket.emit("room_history")
JoinHistory(i) ==
  /\ At(i, "join_room", "history")
  /\ out' = <<Emit(tasks[i].sock, "room_history", findByRoom(tasks[i].room, HistoryLimit))>>
  /\ ev' = DbEvent(tasks[i], tasks[i].room, TRUE, TRUE)
  /\ tasks' = RemoveAt(tasks, i)
  /\ UNCHANGED <<httpVars, server, received, joined, conn, now, memVars, sockUser, ready,
                 connectedUsers, dbUsers, dbRooms, dbMembers, dbMessages>>

\* database-backed socket.on("leave_room"): synchronous
DbLeaveRoom(s, roomId) ==
  /\ server = "db" /\ conn[s] = "open" /\ ready[s]
  /\ joined' = joined \ {<<s, roomId>>}
  /\ out' = <<>>
  /\ ev' = Event("leave_room", s, Username(sockUser[s]), roomId, TRUE, "run", TRUE)
  /\ UNCHANGED <<httpVars, server, received, conn, now, memVars, dbVars>>

\* database-backed socket.on("typing") / socket.on("stop_typing")
DbTyping(s, name, to, roomId) ==
  /\ DbListening(s)
  /\ name \in TypingEvents
  /\ Arrive(Task(name, s, IF to # NoTarget THEN "find" ELSE "member", to, roomId,
                 <<>>, Null, 0))
  /\ UNCHANGED <<httpVars, server, received, joined, conn, now, memVars, sockUser, ready,
                 connectedUsers, dbUsers, dbRooms, dbMembers, dbMessages>>

\* await userRepository.findByUsername(to), then the emit to the target's socket
TypingFind(i) ==
  /\ server = "db" /\ i \in 1..Len(tasks)
  /\ tasks[i].kind \in TypingEvents /\ tasks[i].pc = "find"
  /\ LET t == tasks[i] target == findByUsername(t.to)
     IN /\ out' = IF target # 0 /\ MapHas(connectedUsers, target)
                  THEN <<Emit(MapGet(connectedUsers, target), t.kind,
                              [from |-> Username(sockUser[t.sock]),
                               type |-> "private"])>>
                  ELSE <<>>
        /\ ev' = DbEvent(t, [to |-> t.to], TRUE, TRUE)
  /\ tasks' = RemoveAt(tasks, i)
  /\ UNCHANGED <<httpVars, server, received, joined, conn, now, memVars, sockUser, ready,
                 connectedUsers, dbUsers, dbRooms, dbMembers, dbMessages>>

\* await roomRepository.isMember(roomId, user.id), then socket.to(roomId).emit
TypingMember(i) ==
  /\ server = "db" /\ i \in 1..Len(tasks)
  /\ tasks[i].kind \in TypingEvents /\ tasks[i].pc = "member"
  /\ LET t == tasks[i]
     IN /\ out' = IF isMember(t.room, sockUser[t.sock])
                  THEN socketTo(t.sock, t.room, t.kind,
                                [from |-> Username(sockUser[t.sock]), type |-> "group",
                                 roomId |-> t.room])
                  ELSE <<>>
        /\ ev' = DbEvent(t, [roomId |-> t.room], TRUE, TRUE)
  /\ tasks' = RemoveAt(tasks, i)
  /\ UNCHANGED <<httpVars, server, received, joined, conn, now, memVars, sockUser, ready,
                 connectedUsers, dbUsers, dbRooms, dbMembers, dbMessages>>

\* The typing scenario starts where A (socket 1) and B (socket 2) are connected,
\* A has created group 0 / 1 with B, and B has created a group of its own.
TypingTargets == Usernames \cup {"nobody", NoTarget}
TypingRoom(name, members, by) ==
  [name |-> name, members |-> members, messages |-> <<>>, type |-> "group",
   createdBy |-> by]
InitTyping ==
  /\ server \in {"mem", "db"}
  /\ conn = [s \in Sockets |-> IF s <= 2 THEN "open" ELSE "idle"]
  /\ now = 1
  /\ out = <<>>
  /\ ev = NoEvent
  /\ received = <<>>
  /\ joined = {}
  /\ HttpInit
  /\ currentUser = [s \in Sockets |->
                      IF server = "mem" /\ s <= 2 THEN Names[s] ELSE Null]
  /\ users = IF server = "mem"
             THEN [i \in 1..2 |->
                     [k |-> Names[i],
                      v |-> [socketId |-> i, online |-> TRUE, avatar |-> Null,
                             lastSeen |-> 0, status |-> NoStatus]]]
             ELSE <<>>
  /\ rooms = IF server = "mem"
             THEN <<[k |-> 0, v |-> TypingRoom("devs", <<"B", "A">>, "A")],
                    [k |-> 1, v |-> TypingRoom("ops", <<"B">>, "B")]>>
             ELSE <<>>
  /\ messageHistory = <<>>
  /\ sockUser = [s \in Sockets |-> IF s = 2 THEN 2 ELSE 1]
  /\ ready = [s \in Sockets |-> server = "db" /\ s <= 2]
  /\ connectedUsers = IF server = "db"
                      THEN <<[k |-> 1, v |-> 1], [k |-> 2, v |-> 2]>> ELSE <<>>
  /\ dbUsers = [u \in UserIds |->
                  [username |-> Names[u], is_online |-> server = "db" /\ u <= 2,
                   last_seen |-> 0, status |-> "available"]]
  /\ dbRooms = IF server = "db"
               THEN <<RoomRow(1, "devs", "group", 1), RoomRow(2, "ops", "group", 2)>>
               ELSE <<>>
  /\ dbMembers = IF server = "db" THEN {<<1, 1>>, <<1, 2>>, <<2, 2>>} ELSE {}
  /\ dbMessages = <<>>
  /\ tasks = <<>>
TypingRooms ==
  IF server = "mem" THEN MapKeys(rooms) ELSE {dbRooms[i].id : i \in 1..Len(dbRooms)}
NextTyping ==
  \/ \E s \in Sockets, g \in TypingRooms : join_room(s, g)
  \/ \E s \in Sockets, g \in TypingRooms : leave_room(s, g)
  \/ \E s \in Sockets, name \in TypingEvents, to \in TypingTargets, g \in TypingRooms :
       typing(s, name, to, g)
  \/ \E s \in Sockets : MemDisconnect(s)
  \/ \E s \in Sockets, g \in TypingRooms : DbJoinRoom(s, g)
  \/ \E i \in 1..MaxTasks : JoinMember(i)
  \/ \E i \in 1..MaxTasks : JoinHistory(i)
  \/ \E s \in Sockets, g \in TypingRooms : DbLeaveRoom(s, g)
  \/ \E s \in Sockets, name \in TypingEvents, to \in TypingTargets, g \in TypingRooms :
       DbTyping(s, name, to, g)
  \/ \E i \in 1..MaxTasks : TypingFind(i)
  \/ \E i \in 1..MaxTasks : TypingMember(i)
  \/ \E s \in Sockets : DbDisconnect(s)
  \/ \E i \in 1..MaxTasks : DiscStatus(i)
  \/ \E i \in 1..MaxTasks : DiscBroadcast(i)
SpecTyping == InitTyping /\ [][NextTyping]_vars

(* ------------------------- message ids ---------------------------------- *)
MaxIdRand == 1
MaxIdSends == 2
\* Date.now() + Math.random(): the pair <<now, r>> stands for now + r, r being
\* the fraction drawn by Math.random(); numbers compare as the pairs do
IdLess(a, b) == a[1] < b[1] \/ (a[1] = b[1] /\ a[2] < b[2])
IdRand == 0..MaxIdRand
\* two draws of Math.random() are taken to differ
FreshId(r) ==
  /\ \A i \in 1..Len(messageHistory) : \A j \in 1..Len(messageHistory[i].v) :
       messageHistory[i].v[j].id # <<now, r>>
  /\ \A i \in 1..Len(rooms) : \A j \in 1..Len(rooms[i].v.messages) :
       rooms[i].v.messages[j].id # <<now, r>>
\* A (socket 1) and B (socket 2) are registered and A has created group 0 with B
InitIds ==
  /\ server = "mem"
  /\ conn = [s \in Sockets |-> IF s <= 2 THEN "open" ELSE "idle"]
  /\ now = 0
  /\ out = <<>>
  /\ ev = NoEvent
  /\ received = <<>>
  /\ joined = {}
  /\ HttpInit
  /\ currentUser = [s \in Sockets |-> IF s <= 2 THEN Names[s] ELSE Null]
  /\ users = [i \in 1..2 |->
                [k |-> Names[i],
                 v |-> [socketId |-> i, online |-> TRUE, avatar |-> Null,
                        lastSeen |-> 0, status |-> NoStatus]]]
  /\ rooms = <<[k |-> 0, v |-> TypingRoom("devs", <<"B", "A">>, "A")]>>
  /\ messageHistory = <<>>
  /\ DbInit
NextIds ==
  \/ \E s \in 1..2, to \in Usernames, m \in Texts, r \in IdRand :
       /\ MemStored + 2 <= 2 * MaxIdSends
       /\ FreshId(r)
       /\ to # currentUser[s]
       /\ send_private(s, to, m, r)
  \/ \E s \in 1..2, m \in Texts, r \in IdRand :
       /\ MemStored + 2 <= 2 * MaxIdSends
       /\ FreshId(r)
       /\ send_group(s, 0, m, r)
  \/ Tick
SpecIds == InitIds /\ [][NextIds]_vars

(* --------------------------- rateLimiter -------------------------------- *)
MaxRate == 2
MaxWindow == 2
MaxRateClock == 3
Ips == {"ip1", "ip2"}
\* timestamps.filter(time => time > windowStart)
Recent(timestamps, windowStart) == SelectSeq(timestamps, LAMBDA time : time > windowStart)
\* the loop "Limpar registros antigos": stale timestamps go, emptied keys are deleted
Cleaned(reqs, windowStart) ==
  SelectSeq([i \in 1..Len(reqs) |->
               [k |-> reqs[i].k, v |-> Recent(reqs[i].v, windowStart)]],
            LAMBDA e : e.v # <<>>)
\* the middleware returned by rateLimiter(maxRequests, windowMs)
rateLimiterOffByOne(ip) ==
  /\ server = "db"
  /\ LET windowStart == now - limits.windowMs
         kept == Cleaned(requests, windowStart)
         userRequests == IF MapHas(kept, ip) THEN MapGet(kept, ip) ELSE <<>>
         recentRequests == Recent(userRequests, windowStart)
     IN IF Len(recentRequests) > limits.maxRequests
        THEN /\ requests' = kept
             /\ passed' = passed
             /\ out' = <<Emit(ip, "status", 429)>>
             /\ ev' = Event("request", 0, ip, Null, FALSE, "run", TRUE)
        ELSE /\ requests' = MapSet(kept, ip, Append(recentRequests, now))
             /\ passed' = Append(passed, <<ip, now>>)
             /\ out' = <<Emit(ip, "next", now)>>
             /\ ev' = Event("request", 0, ip, Null, TRUE, "run", TRUE)
  /\ UNCHANGED <<server, received, joined, conn, now, memVars, dbVars, authService,
                 boundAuth, limits>>
rateLimiter(ip) ==
  /\ server = "db"
  /\ LET windowStart == now - limits.windowMs
         kept == Cleaned(requests, windowStart)
         userRequests == IF MapHas(kept, ip) THEN MapGet(kept, ip) ELSE <<>>
         recentRequests == Recent(userRequests, windowStart)
     IN IF Len(recentRequests) >= limits.maxRequests
        THEN /\ requests' = kept
             /\ passed' = passed
             /\ out' = <<Emit(ip, "status", 429)>>
             /\ ev' = Event("request", 0, ip, Null, FALSE, "run", TRUE)
        ELSE /\ requests' = MapSet(kept, ip, Append(recentRequests, now))
             /\ passed' = Append(passed, <<ip, now>>)
             /\ out' = <<Emit(ip, "next", now)>>
             /\ ev' = Event("request", 0, ip, Null, TRUE, "run", TRUE)
  /\ UNCHANGED <<server, received, joined, conn, now, memVars, dbVars, authService,
                 boundAuth, limits>>
\* time passes between two requests
RateTick ==
  /\ now < MaxRateClock
  /\ now' = now + 1
  /\ out' = <<>>
  /\ ev' = NoEvent
  /\ UNCHANGED <<server, received, joined, conn, memVars, dbVars, httpVars>>
\* a limiter just built, with small arguments in place of (5, 15 min)
InitRate ==
  /\ server = "db"
  /\ conn = [s \in Sockets |-> "idle"]
  /\ now = 0
  /\ out = <<>>
  /\ ev = NoEvent
  /\ received = <<>>
  /\ joined = {}
  /\ authService = "ready"
  /\ boundAuth = "undefined"
  /\ requests = <<>>
  /\ limits \in [maxRequests : 1..MaxRate, windowMs : 1..MaxWindow]
  /\ passed = <<>>
  /\ MemInit
  /\ DbInit
NextRate ==
  \/ \E ip \in Ips : rateLimiter(ip)
  \/ RateTick
SpecRate == InitRate /\ [][NextRate]_vars

(* ------------------------ startup and authentication -------------------- *)
NoToken == "<no token>"
Tokens == {NoToken, "token of A", "token of B", "forged"}
Routes == {"/api/auth/me", "/api/users", "/api/rooms"}
\* authService.validateToken(token): the user the token was issued to, 0 for
\* a token it rejects (it throws)
validateToken(token) ==
  IF token = "token of A" THEN 1 ELSE IF token = "token of B" THEN 2 ELSE 0

\* startServer(): await initializeDatabase(), then server.listen(PORT);
\* a failed connect ends the process
initializeDatabase(connected) ==
  /\ server = "db" /\ authService = "undefined"
  /\ IF connected
     THEN /\ authService' = "ready"
          /\ UNCHANGED <<server, conn>>
     ELSE /\ authService' = authService
          /\ server' = "crashed"
          /\ conn' = Exit(conn)
  /\ out' = <<>>
  /\ ev' = Event("startup", 0, Null, Null, connected, "run", TRUE)
  /\ UNCHANGED <<received, joined, now, memVars, dbVars, boundAuth, requests, limits,
                 passed>>

\* io.use(authenticateSocket(authService)): the middleware works on the value
\* authService had when io.use ran; undefined.validateToken throws a TypeError
\* inside the try, and the catch refuses the handshake
authenticateSocket(s, token) ==
  /\ server = "db" /\ authService = "ready" /\ conn[s] = "idle"
  /\ IF token = NoToken
     THEN /\ conn' = [conn EXCEPT ![s] = "closed"]
          /\ out' = <<Emit(s, "connect_error", "Token de acesso requerido")>>
          /\ ev' = Event("handshake", s, Null, token, FALSE, "run", TRUE)
          /\ UNCHANGED <<sockUser, tasks>>
     ELSE IF boundAuth = "undefined" \/ validateToken(token) = 0
     THEN /\ conn' = [conn EXCEPT ![s] = "closed"]
          /\ out' = <<Emit(s, "connect_error", "Token invalido ou expirado")>>
          /\ ev' = Event("handshake", s, Null, token, FALSE, "run", TRUE)
          /\ UNCHANGED <<sockUser, tasks>>
     ELSE /\ conn' = [conn EXCEPT ![s] = "open"]
          /\ sockUser' = [sockUser EXCEPT ![s] = validateToken(token)]
          /\ tasks' = Append(tasks, Task("connection", s, "status", Null, 0, <<>>, Null, 0))
          /\ out' = <<>>
          /\ ev' = Event("handshake", s, Username(validateToken(token)), token, TRUE,
                         "run", TRUE)
  /\ UNCHANGED <<httpVars, server, received, joined, now, memVars, ready, connectedUsers,
                 dbUsers, dbRooms, dbMembers, dbMessages>>

\* app.get(route, authenticateToken(authService), handler)
authenticateToken(route, token) ==
  /\ server = "db" /\ authService = "ready"
  /\ IF token = NoToken
     THEN /\ out' = <<Emit(route, "status", 401)>>
          /\ ev' = Event("http", 0, Null, token, FALSE, route, TRUE)
     ELSE IF boundAuth = "undefined" \/ validateToken(token) = 0
     THEN /\ out' = <<Emit(route, "status", 403)>>
          /\ ev' = Event("http", 0, Null, token, FALSE, route, TRUE)
     ELSE /\ out' = <<Emit(route, "next", validateToken(token))>>
          /\ ev' = Event("http", 0, Username(validateToken(token)), token, TRUE, route,
                         TRUE)
  /\ UNCHANGED <<httpVars, server, received, joined, conn, now, memVars, dbVars>>

\* the module has been loaded: the routes and io.use are set up, startServer()
\* has been called and initializeDatabase has not returned yet
InitAuth ==
  /\ server = "db"
  /\ conn = [s \in Sockets |-> "idle"]
  /\ now = 0
  /\ out = <<>>
  /\ ev = NoEvent
  /\ received = <<>>
  /\ joined = {}
  /\ authService = "undefined"
  /\ boundAuth = "undefined"
  /\ requests = <<>>
  /\ limits = RegisterLimits
  /\ passed = <<>>
  /\ MemInit
  /\ DbInit
NextAuth ==
  \/ \E connected \in BOOLEAN : initializeDatabase(connected)
  \/ \E s \in Sockets, token \in Tokens : authenticateSocket(s, token)
  \/ \E route \in Routes, token \in Tokens : authenticateToken(route, token)
  \/ Tick
SpecAuth == InitAuth /\ [][NextAuth]_vars

(* --------------------- create_group member lists ----------------------- *)
MaxGroupRooms == 2
\* member lists that name the creator A never and nobody twice; "nobody" is
\* a username without account
GroupLists == {<<>>, <<"B">>, <<"nobody">>, <<"B", "nobody">>, <<"nobody", "B">>}
\* A (socket 1) and B (socket 2) are connected; there is no room yet
InitGroup ==
  /\ server = "db"
  /\ conn = [s \in Sockets |-> IF s <= 2 THEN "open" ELSE "idle"]
  /\ now = 0
  /\ out = <<>>
  /\ ev = NoEvent
  /\ received = <<>>
  /\ joined = {}
  /\ HttpInit
  /\ MemInit
  /\ sockUser = [s \in Sockets |-> IF s = 2 THEN 2 ELSE 1]
  /\ ready = [s \in Sockets |-> s <= 2]
  /\ connectedUsers = <<[k |-> 1, v |-> 1], [k |-> 2, v |-> 2]>>
  /\ dbUsers = [u \in UserIds |->
                  [username |-> Names[u], is_online |-> u <= 2, last_seen |-> 0,
                   status |-> "available"]]
  /\ dbRooms = <<>>
  /\ dbMembers = {}
  /\ dbMessages = <<>>
  /\ tasks = <<>>
NextGroup ==
  \/ \E ms \in GroupLists :
       /\ Len(dbRooms) + Pending({"create_group"}) < MaxGroupRooms
       /\ DbCreateGroup(1, "devs", ms)
  \/ \E i \in 1..MaxTasks : GroupCreate(i)
  \/ \E i \in 1..MaxTasks : GroupAddCreator(i)
  \/ \E i \in 1..MaxTasks : GroupFind(i)
  \/ \E i \in 1..MaxTasks : GroupAdd(i)
SpecGroup == InitGroup /\ [][NextGroup]_vars

(* ------------------------------ inboxes -------------------------------- *)
MaxInboxSends == 2
InboxTexts == {<<"a">>}
InboxQueries == {<<>>, <<"a">>, <<"b">>}
\* two sockets are connected and have not sent set_username yet
InitInbox ==
  /\ server = "mem"
  /\ conn = [s \in Sockets |-> IF s <= 2 THEN "open" ELSE "idle"]
  /\ now = 0
  /\ out = <<>>
  /\ ev = NoEvent
  /\ received = <<>>
  /\ joined = {}
  /\ HttpInit
  /\ MemInit
  /\ DbInit
NextInbox ==
  \/ \E s \in Sockets, u \in Usernames : set_username(s, u)
  \/ \E s \in Sockets, to \in Usernames, m \in InboxTexts :
       MemStored + 2 <= 2 * MaxInboxSends /\ send_private(s, to, m, 0)
  \/ \E s \in Sockets, q \in InboxQueries : search_messages(s, q, TRUE)
SpecInbox == InitInbox /\ [][NextInbox]_vars

(* ------------------- disconnect during the connection handler ---------- *)
\* A and B have accounts and share the group devs; nobody is connected
InitLate ==
  /\ server = "db"
  /\ conn = [s \in Sockets |-> "idle"]
  /\ now = 0
  /\ out = <<>>
  /\ ev = NoEvent
  /\ received = <<>>
  /\ joined = {}
  /\ HttpInit
  /\ MemInit
  /\ sockUser = [s \in Sockets |-> 1]
  /\ ready = [s \in Sockets |-> FALSE]
  /\ connectedUsers = <<>>
  /\ dbUsers = [u \in UserIds |->
                  [username |-> Names[u], is_online |-> FALSE, last_seen |-> 0,
                   status |-> "available"]]
  /\ dbRooms = <<RoomRow(1, "devs", "group", 1)>>
  /\ dbMembers = {<<1, 1>>, <<1, 2>>}
  /\ dbMessages = <<>>
  /\ tasks = <<>>
\* the continuations of suspended handlers: the event loop runs each of them
\* once its await has settled
LateSteps ==
  \/ \E i \in 1..MaxTasks : ConnStatus(i)
  \/ \E i \in 1..MaxTasks : ConnBroadcast(i)
  \/ \E i \in 1..MaxTasks : ConnRooms(i)
  \/ \E i \in 1..MaxTasks : ConnHistory(i)
  \/ \E i \in 1..MaxTasks : DiscStatus(i)
  \/ \E i \in 1..MaxTasks : DiscBroadcast(i)
NextLate ==
  \/ \E s \in Sockets, u \in UserIds : DbConnect(s, u)
  \/ \E s \in Sockets : DbDisconnect(s)
  \/ LateSteps
SpecLate == InitLate /\ [][NextLate]_vars /\ WF_vars(LateSteps)

(* ============================== claims ================================= *)
CountIn(o, h, name) ==
  Cardinality({i \in 1..Len(o) : o[i].to = h /\ o[i].ev = name})
CountAll(o, name) == Cardinality({i \in 1..Len(o) : o[i].ev = name})
TargetsOf(o, name) == {o[k].to : k \in {j \in 1..Len(o) : o[j].ev = name}}
HandlesOf(m, k) == {m[i].v : i \in {j \in 1..Len(m) : m[j].k = k}}
MemHandlesOf(k) == {users[i].v.socketId : i \in {j \in 1..Len(users) : users[j].k = k}}

\* C1: the connection registry holds at most one handle per user: a second
\* registration for a user replaces the stored handle, so a lookup of the user
\* yields exactly one handle.
C1_OneHandlePerUser ==
  /\ \A u \in Usernames : Cardinality(MemHandlesOf(u)) <= 1
  /\ \A i, j \in 1..Len(users) : users[i].k = users[j].k => i = j
  /\ \A u \in UserIds : Cardinality(HandlesOf(connectedUsers, u)) <= 1
  /\ \A i, j \in 1..Len(connectedUsers) :
       connectedUsers[i].k = connectedUsers[j].k => i = j
\* a user registered on a second socket while the first one is still open
C1_Witness ==
  /\ server = "mem" /\ ev.type = "set_username"
  /\ \E s \in Sockets : s # ev.sock /\ conn[s] = "open" /\ currentUser[s] = ev.user
  /\ MemHandlesOf(ev.user) = {ev.sock}

\* C2: the disconnect of a handle that is not the one stored for its user is a
\* no-op for that user: the stored handle and the online flag stay as they are.
C2_Step ==
  /\ (server = "mem" /\ ev'.type = "disconnect" /\ conn[ev'.sock] = "open"
      /\ conn'[ev'.sock] = "closed" /\ currentUser[ev'.sock] # Null
      /\ MapHas(users, currentUser[ev'.sock])
      /\ MapGet(users, currentUser[ev'.sock]).socketId # ev'.sock)
     => MapGet(users', currentUser[ev'.sock]) = MapGet(users, currentUser[ev'.sock])
  /\ (server = "db" /\ ev'.type = "disconnect" /\ ev'.step = "status"
      /\ MapHas(connectedUsers, sockUser[ev'.sock])
      /\ MapGet(connectedUsers, sockUser[ev'.sock]) # ev'.sock)
     => /\ MapHas(connectedUsers', sockUser[ev'.sock])
        /\ MapGet(connectedUsers', sockUser[ev'.sock])
             = MapGet(connectedUsers, sockUser[ev'.sock])
        /\ dbUsers'[sockUser[ev'.sock]].is_online = dbUsers[sockUser[ev'.sock]].is_online
C2_StaleDisconnectIsNoOp == [][C2_Step]_vars

\* C3: an accepted send_group reaches every online member of the room exactly
\* once and no user outside the room, whatever member list the room was
\* created with.
MemOnline(m) == MapHas(users, m) /\ MapGet(users, m).online
MemHandle(m) == MapGet(users, m).socketId
MemHandlesDistinct ==
  \A m1, m2 \in Usernames :
    (m1 # m2 /\ MemOnline(m1) /\ MemOnline(m2)) => MemHandle(m1) # MemHandle(m2)
MemMembers(g) == {MapGet(rooms, g).members[i] : i \in 1..Len(MapGet(rooms, g).members)}
C3_GroupFanoutExactlyOnce ==
  /\ (server = "mem" /\ ev.type = "send_group" /\ MapHas(rooms, ev.arg)
      /\ ev.user \in MemMembers(ev.arg) /\ MemHandlesDistinct)
     => \A m \in Usernames :
          MemOnline(m) =>
            CountIn(out, MemHandle(m), "receive_group")
              = (IF m \in MemMembers(ev.arg) THEN 1 ELSE 0)
  /\ (server = "db" /\ ev.type = "send_group" /\ ev.step = "fanout")
     => \A u \in UserIds :
          MapHas(connectedUsers, u) =>
            CountIn(out, MapGet(connectedUsers, u), "receive_group")
              = (IF isMember(ev.arg, u) THEN 1 ELSE 0)

\* C4: a send_group into a room the sender is not a member of (or that does
\* not exist) returns an error event to the sender, appends nothing to any
\* history and emits no receive_group.
C4_NotMember ==
  \/ /\ server = "mem" /\ ev'.step = "run"
     /\ \/ ~MapHas(rooms, ev'.arg)
        \/ ~SeqContains(MapGet(rooms, ev'.arg).members, currentUser[ev'.sock])
  \/ /\ server = "db" /\ ev'.step = "member"
     /\ ~isMember(ev'.arg, sockUser[ev'.sock])
C4_Step ==
  (ev'.type = "send_group" /\ C4_NotMember)
  => /\ rooms' = rooms /\ messageHistory' = messageHistory /\ dbMessages' = dbMessages
     /\ CountAll(out', "receive_group") = 0
     /\ CountIn(out', ev'.sock, "error") = 1
C4_NonMemberSendGroupForbidden == [][C4_Step]_vars

\* C5: no stored history - a private inbox, a group room's message list, the
\* rows of one room in the messages table - is ever longer than the capacity.
C5_HistoryWithinCapacity ==
  /\ \A i \in 1..Len(messageHistory) : Len(messageHistory[i].v) <= Capacity
  /\ \A i \in 1..Len(rooms) : Len(rooms[i].v.messages) <= Capacity
  /\ \A g \in 1..Len(dbRooms) :
       Len(SelectSeq(dbMessages, LAMBDA m : m.room_id = g)) <= Capacity

\* C6: an append to a conversation that holds capacity messages drops exactly
\* its oldest message: the conversation then holds the former messages
\* 2..capacity in order, followed by the new one; an append to a conversation
\* that is not full drops nothing. Conversations are the private inboxes
\* written by saveMessage and the message lists of the group rooms.
C6_Evicted(old, new, sent) ==
  IF Len(old) = Capacity
  THEN /\ Len(new) = Capacity
       /\ \A j \in 1..(Capacity - 1) : new[j] = old[j + 1]
       /\ new[Capacity] = sent
  ELSE new = Append(old, sent)
C6_InboxStep ==
  (ev'.type = "send_private" /\ server = "mem" /\ ev'.user # ev'.arg) =>
    \A k \in {ev'.user, ev'.arg} :
      C6_Evicted(IF MapHas(messageHistory, k) THEN MapGet(messageHistory, k) ELSE <<>>,
                 MapGet(messageHistory', k), out'[Len(out')].data)
C6_RoomStep ==
  (ev'.type = "send_group" /\ server = "mem" /\ ev'.ok) =>
    C6_Evicted(MapGet(rooms, ev'.arg).messages, MapGet(rooms', ev'.arg).messages,
               Last(MapGet(rooms', ev'.arg).messages))
C6_AppendEvictsOldestOnly == [][C6_InboxStep /\ C6_RoomStep]_vars
\* the part of C6 that saveMessage alone answers for
C6_InboxEvictsOldestOnly == [][C6_InboxStep]_vars

\* C7: at most one private room exists per unordered pair of distinct users,
\* and every createOrFindPrivateRoom(a, b) or (b, a) that has returned holds
\* the id of that one room, also while sends in both directions are in flight.
DbMembersOf(g) == {u \in UserIds : <<g, u>> \in dbMembers}
DbPrivateRooms(a, b) ==
  {i \in 1..Len(dbRooms) : dbRooms[i].type = "private" /\ DbMembersOf(dbRooms[i].id) = {a, b}}
C7_OnePrivateRoomPerPair ==
  /\ \A a, b \in UserIds : a # b => Cardinality(DbPrivateRooms(a, b)) <= 1
  /\ \A i \in 1..Len(tasks) :
       (tasks[i].kind = "send_private" /\ tasks[i].pc = "save")
       => \E r \in DbPrivateRooms(sockUser[tasks[i].sock], tasks[i].i) :
            dbRooms[r].id = tasks[i].room
\* A's send to B and B's send to A both hold the room of the pair
C7_Witness ==
  \E i, j \in 1..Len(tasks) :
    /\ tasks[i].kind = "send_private" /\ tasks[i].pc = "save"
    /\ tasks[j].kind = "send_private" /\ tasks[j].pc = "save"
    /\ sockUser[tasks[i].sock] # sockUser[tasks[j].sock]
    /\ tasks[i].i = sockUser[tasks[j].sock] /\ tasks[j].i = sockUser[tasks[i].sock]
    /\ tasks[i].room = tasks[j].room

\* C8: no user_list event sent to a user's connection has an entry for that
\* user.
C8_UserListExcludesViewer ==
  \A i \in 1..Len(out) :
    out[i].ev = "user_list" =>
      \A j \in 1..Len(out[i].data) :
        /\ server = "mem" =>
             \A u \in Usernames :
               (MapHas(users, u) /\ MapGet(users, u).socketId = out[i].to)
               => out[i].data[j].username # u
        /\ (server = "db" /\ conn[out[i].to] = "open")
           => out[i].data[j].username # dbUsers[sockUser[out[i].to]].username

\* C9: handling the disconnect of a user's active connection marks the user
\* offline with lastSeen set to the time of the disconnect, shows the user so in
\* the user_list pushed to the others, and changes no room's member set and no
\* stored history.
Entries(list, name) == {j \in 1..Len(list) : list[j].username = name}
C9_MemStep ==
  LET s == ev'.sock
      u == currentUser[s]
  IN (server = "mem" /\ ev'.type = "disconnect" /\ u # Null /\ MapHas(users, u)
      /\ MapGet(users, u).socketId = s)
     => /\ ~MapGet(users', u).online
        /\ MapGet(users', u).lastSeen = now
        /\ \A v \in Usernames \ {u} :
             (MapHas(users', v) /\ MapGet(users', v).online)
             => \E i \in 1..Len(out') :
                  /\ out'[i].ev = "user_list" /\ out'[i].to = MapGet(users', v).socketId
                  /\ Entries(out'[i].data, u) # {}
        /\ \A i \in 1..Len(out') :
             out'[i].ev = "user_list" =>
               \A j \in Entries(out'[i].data, u) :
                 ~out'[i].data[j].online /\ out'[i].data[j].lastSeen = now
        /\ rooms' = rooms /\ messageHistory' = messageHistory
C9_DbStep ==
  LET s == ev'.sock
      u == sockUser[s]
  IN (server = "db" /\ ev'.type = "disconnect")
     => /\ (ev'.step = "status" /\ MapHas(connectedUsers, u)
            /\ MapGet(connectedUsers, u) = s)
           => /\ ~dbUsers'[u].is_online /\ dbUsers'[u].last_seen = now
              /\ ~MapHas(connectedUsers', u)
        /\ ev'.step = "broadcast"
           => /\ \A h \in Sockets :
                   conn[h] = "open" => CountIn(out', h, "user_list") = 1
              /\ \A i \in 1..Len(out') :
                   (out'[i].ev = "user_list"
                    /\ Entries(out'[i].data, dbUsers[u].username) # {})
                   => MapHas(connectedUsers, u)
        /\ dbRooms' = dbRooms /\ dbMembers' = dbMembers /\ dbMessages' = dbMessages
C10_Recipient(resolves, handle) ==
  /\ CountAll(out, "receive_private") <= 1
  /\ (resolves /\ conn[handle] = "open") => CountIn(out, handle, "receive_private") = 1
  /\ \A h \in Sockets :
       (conn[h] = "open" /\ ~(resolves /\ h = handle))
       => CountIn(out, h, "receive_private") = 0
C10_Ack(stored) ==
  /\ CountAll(out, "message_sent") = 1
  /\ CountIn(out, ev.sock, "message_sent") = 1
  /\ \A i \in 1..Len(out) :
       out[i].ev \in {"message_sent", "receive_private"} =>
         /\ out[i].data.id = stored.id
         /\ out[i].data.message = stored.text
C10_PrivateAckAndDelivery ==
  /\ (server = "mem" /\ ev.type = "send_private")
     => /\ MapHas(messageHistory, ev.user)
        /\ LET m == Last(MapGet(messageHistory, ev.user))
           IN C10_Ack([id |-> m.id, text |-> m.message])
        /\ C10_Recipient(MemOnline(ev.arg),
                         IF MapHas(users, ev.arg) THEN MemHandle(ev.arg) ELSE 0)
  /\ (server = "db" /\ ev.type = "send_private" /\ ev.step = "save" /\ ev.ok)
     => /\ dbMessages # <<>>
        /\ LET m == Last(dbMessages)
           IN C10_Ack([id |-> m.id, text |-> m.content])
        /\ LET target == CHOOSE u \in UserIds : dbUsers[u].username = ev.arg
           IN C10_Recipient(MapHas(connectedUsers, target),
                            IF MapHas(connectedUsers, target)
                            THEN MapGet(connectedUsers, target) ELSE 0)
\* a stored private message whose recipient is online on another connection
C10_Witness ==
  /\ ev.type = "send_private" /\ ev.fin /\ ev.ok
  /\ CountIn(out, ev.sock, "message_sent") = 1
  /\ \E h \in Sockets : h # ev.sock /\ conn[h] = "open"
                        /\ CountIn(out, h, "receive_private") = 1

\* C11: a send_private to a name that identifies no known user reports an error
\* to the sender, stores the message in no history (no inbox or room appears for
\* the unknown name) and emits neither receive_private nor message_sent.
C11_Unknown ==
  \/ server = "mem" /\ ev'.step = "run" /\ ~MapHas(users, ev'.arg)
  \/ server = "db" /\ ev'.step = "find" /\ findByUsername(ev'.arg) = 0
C11_Step ==
  (ev'.type = "send_private" /\ C11_Unknown)
  => /\ messageHistory' = messageHistory /\ rooms' = rooms
     /\ dbMessages' = dbMessages /\ dbRooms' = dbRooms /\ dbMembers' = dbMembers
     /\ CountAll(out', "receive_private") = 0
     /\ CountAll(out', "message_sent") = 0
     /\ CountIn(out', ev'.sock, "error") = 1
C11_UnknownRecipientRejected == [][C11_Step]_vars

\* C12: when storing the message of a send_private or send_group fails, nothing
\* is stored or delivered for it (no receive_private, receive_group or
\* message_sent), the sender gets one error event, and the other sends in
\* flight are left as they were.
C12_Sends == {"send_private", "send_group"}
C12_Step ==
  (server = "db" /\ ev'.type \in C12_Sends /\ ev'.step = "save" /\ ~ev'.ok)
  => /\ dbMessages' = dbMessages
     /\ CountAll(out', "receive_private") = 0
     /\ CountAll(out', "receive_group") = 0
     /\ CountAll(out', "message_sent") = 0
     /\ CountIn(out', ev'.sock, "error") = 1
     /\ \E i \in 1..Len(tasks) :
          /\ tasks[i].sock = ev'.sock /\ tasks[i].kind = ev'.type /\ tasks[i].pc = "save"
          /\ tasks' = RemoveAt(tasks, i)
C12_FailedSaveDeliversNothing == [][C12_Step]_vars
\* a save failed while another send was in flight
C12_Witness ==
  /\ server = "db" /\ ev.type \in C12_Sends /\ ev.step = "save" /\ ~ev.ok
  /\ CountIn(out, ev.sock, "error") = 1
  /\ \E j \in 1..Len(tasks) : tasks[j].kind \in C12_Sends

\* C13: two messages of one sender in one conversation reach a recipient in the
\* order in which they were appended to the conversation's history (the order
\* of their AUTOINCREMENT ids), however the handlers interleave at their awaits.
C13_SameConversation(a, b) ==
  /\ a.ev = b.ev /\ a.to = b.to /\ a.data.from = b.data.from
  /\ IF a.ev = "receive_group" THEN a.data.roomId = b.data.roomId
     ELSE a.data.to = b.data.to
C13_InOrder(log) ==
  \A p, q \in 1..Len(log) :
    (p < q /\ C13_SameConversation(log[p], log[q])) => log[p].data.id < log[q].data.id
C13_ReceivedInAppendOrder == C13_InOrder(received)
\* the private sends alone
C13_PrivateInAppendOrder ==
  C13_InOrder(SelectSeq(received, LAMBDA e : e.ev = "receive_private"))

\* C14: no failure ends the server process, and every failed step of an
\* event's handling sends one error event to the connection the event came from.
C14_Step ==
  (server = "db" /\ ev'.type # "none" /\ ev'.step # "start" /\ ~ev'.ok)
  => (server' = "db" /\ CountIn(out', ev'.sock, "error") = 1)
C14_FailuresReportedNeverFatal == [][C14_Step]_vars

\* C15: an operation event arriving on a connection whose user has not been
\* established stores no message, creates or changes no room or user record and
\* emits nothing to any other connection; the database-backed server runs a
\* handler only for a socket that passed the handshake.
C15_Operations == {"send_private", "send_group", "create_group"}
C15_Step ==
  /\ (server = "mem" /\ ev'.type \in C15_Operations /\ currentUser[ev'.sock] = Null)
     => /\ messageHistory' = messageHistory /\ rooms' = rooms /\ users' = users
        /\ \A k \in 1..Len(out') : out'[k].to = ev'.sock
  /\ (server = "db" /\ ev'.type \in C15_Operations /\ ev'.step = "start")
     => (conn[ev'.sock] = "open" /\ ready[ev'.sock])
C15_NoEffectBeforeIdentity == [][C15_Step]_vars

\* C16: the members stored for a group made by create_group are the listed
\* users and the creator, each of them once, whatever list the payload holds.
NoRepeat(q) == \A a, b \in 1..Len(q) : q[a] = q[b] => a = b
SetOf(q) == {q[a] : a \in 1..Len(q)}
C16_Step ==
  /\ (server = "mem" /\ ev'.type = "create_group")
     => LET stored == MapGet(rooms', ev'.arg).members
        IN /\ NoRepeat(stored)
           /\ currentUser[ev'.sock] \in SetOf(stored)
  /\ (server = "db" /\ ev'.type = "create_group" /\ ev'.fin)
     => LET listed == out'[Len(out')].data.members
        IN {u \in UserIds : <<ev'.arg, u>> \in dbMembers'}
             = {findByUsername(listed[a]) : a \in 1..Len(listed)} \ {0}
C16_GroupMembersDeduplicated == [][C16_Step]_vars

\* C17: a create_group either is refused - no room, no group_created, one error
\* to the sender - or leaves a group of at least two distinct members; a
\* payload whose members and creator make fewer than two users is refused.
C17_Refused ==
  /\ rooms' = rooms /\ dbRooms' = dbRooms
  /\ CountAll(out', "group_created") = 0
  /\ CountIn(out', ev'.sock, "error") = 1
C17_Step ==
  /\ (server = "mem" /\ ev'.type = "create_group")
     => \/ C17_Refused
        \/ /\ MapHas(rooms', ev'.arg)
           /\ Cardinality(SetOf(MapGet(rooms', ev'.arg).members)) >= 2
  /\ (server = "db" /\ ev'.type = "create_group" /\ ev'.fin)
     => \/ C17_Refused /\ \A r \in 1..Len(dbRooms') : dbRooms'[r].id # ev'.arg
        \/ Cardinality({u \in UserIds : <<ev'.arg, u>> \in dbMembers'}) >= 2
C17_SmallGroupRefused == [][C17_Step]_vars

\* C18: a send_private addressed to its own sender is refused with an error to
\* the sender: no inbox entry or private room appears, the message is stored
\* nowhere and no receive_private is emitted.
C18_ToSelf ==
  \/ /\ server = "mem" /\ ev'.step = "run"
     /\ currentUser[ev'.sock] # Null /\ ev'.arg = currentUser[ev'.sock]
  \/ /\ server = "db" /\ ev'.step = "room"
     /\ ev'.arg = Username(sockUser[ev'.sock])
C18_Step ==
  (ev'.type = "send_private" /\ C18_ToSelf)
  => /\ messageHistory' = messageHistory /\ rooms' = rooms
     /\ dbRooms' = dbRooms /\ dbMembers' = dbMembers /\ dbMessages' = dbMessages
     /\ CountAll(out', "receive_private") = 0
     /\ CountIn(out', ev'.sock, "error") = 1
C18_SelfSendRefused == [][C18_Step]_vars

\* C19: search_messages with query q answers with exactly the stored messages
\* of the searched inbox whose text contains q when case is ignored, in stored
\* order - all of them and no other - and with the empty list when none does.
C19_SameLetter(x, y) == x = y \/ {x, y} = {"a", "A"}
C19_Contains(text, q) ==
  \E d \in 0..(Len(text) - Len(q)) :
    \A j \in 1..Len(q) : C19_SameLetter(text[d + j], q[j])
C19_Step ==
  (server = "mem" /\ ev'.type = "search_messages" /\ ev'.ok)
  => LET inbox == IF MapHas(messageHistory, ev'.user)
                  THEN MapGet(messageHistory, ev'.user) ELSE <<>>
     IN /\ Len(out') = 1 /\ out'[1].ev = "search_results" /\ out'[1].to = ev'.sock
        /\ out'[1].data = SelectSeq(inbox, LAMBDA m : C19_Contains(m.message, ev'.arg))
C19_SearchReturnsExactlyMatches == [][C19_Step]_vars
\* a query in the other case found one of two stored messages
C19_Witness ==
  /\ server = "mem" /\ ev.type = "search_messages" /\ ev.ok
  /\ ev.arg = <<"A">>
  /\ MapHas(messageHistory, ev.user)
  /\ Len(MapGet(messageHistory, ev.user)) = 2
  /\ Len(out[1].data) = 1 /\ out[1].data[1].message = <<"b", "a">>

\* C20: when a group is created, every member of it that is online gets a
\* group_created event, each such event lists the creator and all the listed
\* members, and no event goes anywhere but to the connection of an online
\* member of the group.
C20_Notices == {k \in 1..Len(out') : out'[k].ev = "group_created"}
C20_MemStep ==
  (server = "mem" /\ ev'.type = "create_group")
  => LET stored == MapGet(rooms', ev'.arg).members
         creator == currentUser[ev'.sock]
     IN /\ \A m \in SetOf(stored) :
             MemOnline(m) => CountIn(out', MemHandle(m), "group_created") >= 1
        /\ \A k \in C20_Notices :
             /\ SetOf(stored) \subseteq SetOf(out'[k].data.members)
             /\ creator \in SetOf(out'[k].data.members)
             /\ \E m \in SetOf(stored) \ {Null} :
                  MemOnline(m) /\ MemHandle(m) = out'[k].to
C20_DbStep ==
  (server = "db" /\ ev'.type = "create_group" /\ ev'.step # "start")
  => LET g == ev'.arg
         creator == sockUser[ev'.sock]
         added == {u \in UserIds : <<g, u>> \in dbMembers' /\ <<g, u>> \notin dbMembers}
     IN /\ \A u \in added \ {creator} :
             MapHas(connectedUsers, u)
             => CountIn(out', MapGet(connectedUsers, u), "group_created") >= 1
        /\ ev'.fin => CountIn(out', ev'.sock, "group_created") >= 1
        /\ \A k \in C20_Notices :
             /\ Username(creator) \in SetOf(out'[k].data.members)
             /\ \A u \in UserIds :
                  <<g, u>> \in dbMembers' => Username(u) \in SetOf(out'[k].data.members)
             /\ \/ out'[k].to = ev'.sock
                \/ \E u \in UserIds :
                     /\ <<g, u>> \in dbMembers' /\ MapHas(connectedUsers, u)
                     /\ MapGet(connectedUsers, u) = out'[k].to
CoreOps == {"send_private", "send_group", "create_group"}
\* C23: once a newer connection has been registered for a user, the replaced
\* connection is terminally offline: no core operation (send_private,
\* send_group, create_group) is handled on behalf of that user from a socket
\* that is not the handle the registry stores for the user.
C23_Step ==
  /\ (server = "mem" /\ ev'.type \in CoreOps /\ ev'.step = "run"
      /\ ev'.user # Null /\ MapHas(users, ev'.user))
     => MemHandle(ev'.user) = ev'.sock
  /\ (server = "db" /\ ev'.type \in CoreOps /\ ev'.step = "start"
      /\ MapHas(connectedUsers, sockUser[ev'.sock]))
     => MapGet(connectedUsers, sockUser[ev'.sock]) = ev'.sock
C23_ReplacedHandleIsTerminal == [][C23_Step]_vars

(* ------------------------------ C24 ----------------------------------- *)
\* C24: in every reachable state, intermediate states of create_group
\* included, every existing room has at least one member that is a user.
C24_RoomsHaveMembers ==
  /\ \A i \in 1..Len(rooms) : SetOf(rooms[i].v.members) \ {Null} # {}
  /\ \A i \in 1..Len(dbRooms) : DbMembersOf(dbRooms[i].id) # {}

(* ------------------------------ C30 ----------------------------------- *)
\* C30: in the in-memory server a user record is flagged online only while
\* the socket whose id it stores is connected and has that user as its
\* current identity.
C30_OnlineOnlyWhileSocketHoldsIdentity ==
  server = "mem" =>
    \A i \in 1..Len(users) :
      users[i].v.online =>
        /\ conn[users[i].v.socketId] = "open"
        /\ currentUser[users[i].v.socketId] = users[i].k

(* ------------------------------ C21 ----------------------------------- *)
IsGroupTyping(e) ==
  e.type \in TypingEvents /\ e.fin /\ "roomId" \in DOMAIN e.arg
TypingByMember(e) ==
  IF server = "mem"
  THEN MapHas(rooms, e.arg.roomId) /\ e.user \in MemMembers(e.arg.roomId)
  ELSE isMember(e.arg.roomId, sockUser[e.sock])
\* C21: a group typing / stop_typing notification sent by a user who is not a
\* member of the room is dropped (no connection receives it) and an error
\* event is emitted to the sender's connection.
C21_Step ==
  (IsGroupTyping(ev') /\ ~TypingByMember(ev'))
  => /\ CountAll(out', ev'.type) = 0
     /\ CountIn(out', ev'.sock, "error") >= 1
C21_NonMemberTypingRejected == [][C21_Step]_vars
\* the part of C21 that the database-backed server keeps: nothing is relayed
C21_DbStep ==
  (server = "db" /\ IsGroupTyping(ev') /\ ~TypingByMember(ev'))
  => CountAll(out', ev'.type) = 0
C21_DbNonMemberTypingDropped == [][C21_DbStep]_vars

(* ------------------------------ C27 ----------------------------------- *)
IsPrivateTyping(e) ==
  e.type \in TypingEvents /\ e.fin /\ "to" \in DOMAIN e.arg
TypingTargetReachable(e) ==
  IF server = "mem" THEN MemOnline(e.arg.to)
  ELSE /\ findByUsername(e.arg.to) # 0
       /\ MapHas(connectedUsers, findByUsername(e.arg.to))
\* C27: no step of a typing / stop_typing handler changes stored state
\* (message histories, rooms and their member sets, the connection registry,
\* the socket.io rooms), and a private typing notification whose target is
\* offline or unknown emits nothing at all: no event and no error.
C27_Step ==
  /\ ev'.type \in TypingEvents
     => /\ UNCHANGED <<messageHistory, rooms, users, currentUser, joined>>
        /\ UNCHANGED <<dbMessages, dbRooms, dbMembers, dbUsers, connectedUsers>>
  /\ (IsPrivateTyping(ev') /\ ~TypingTargetReachable(ev')) => out' = <<>>
C27_TypingLeavesStateAlone == [][C27_Step]_vars
C27_Witness ==
  /\ IsPrivateTyping(ev)
  /\ IF server = "mem" THEN MapHas(users, ev.arg.to) ELSE findByUsername(ev.arg.to) # 0
  /\ ~TypingTargetReachable(ev)
  /\ out = <<>>

(* ------------------------------ C29 ----------------------------------- *)
\* the connections of the online members of the room, the sender left out
OtherOnlineMembers(e) ==
  IF server = "mem"
  THEN {MemHandle(m) : m \in {x \in MemMembers(e.arg.roomId) \ {e.user} : MemOnline(x)}}
  ELSE {MapGet(connectedUsers, m) :
          m \in {x \in DbMembersOf(e.arg.roomId) \ {sockUser[e.sock]} :
                   MapHas(connectedUsers, x)}}
\* C29: a group typing / stop_typing notification sent by a member of room R
\* is relayed once to the connection of every other online member of R and
\* to no other connection, whether or not those users sent join_room for R.
C29_Step ==
  (IsGroupTyping(ev') /\ TypingByMember(ev'))
  => /\ TargetsOf(out', ev'.type) = OtherOnlineMembers(ev')
     /\ \A h \in Sockets : CountIn(out', h, ev'.type) <= 1
     /\ CountIn(out', ev'.sock, ev'.type) = 0
C29_GroupTypingReachesMembers == [][C29_Step]_vars
\* what the code does keep: a group indicator never comes back to the sender
C29_SenderStep ==
  IsGroupTyping(ev') => CountIn(out', ev'.sock, ev'.type) = 0
C29_NeverBackToSender == [][C29_SenderStep]_vars

(* ------------------------------ C28 ----------------------------------- *)
\* the send_group invocations that have passed the membership check and have
\* not fanned out yet
GroupInFlight ==
  {i \in 1..Len(tasks) : tasks[i].kind = "send_group" /\ tasks[i].pc \in {"save", "fanout"}}
\* C28: the handling of one send_group (membership check, append, fan-out) is
\* atomic with respect to every other core event: between its membership
\* check and its fan-out no connect, disconnect or create_group takes effect,
\* so the online member set it fans out to is the one that held at the check.
C28_Step ==
  (server = "db" /\ GroupInFlight # {})
  => /\ connectedUsers' = connectedUsers
     /\ dbMembers' = dbMembers
C28_SendGroupAtomic == [][C28_Step]_vars

(* ------------------------------ C22 ----------------------------------- *)
Pushed(o) == {k \in 1..Len(o) : o[k].ev \in {"receive_private", "receive_group"}}
StoredIds == {dbMessages[k].id : k \in 1..Len(dbMessages)}
\* C22: a message routed while a recipient has no live connection is stored
\* all the same, and it is not pushed to that recipient as receive_private /
\* receive_group: not by the step that delivers the message, and not by any
\* later step (a receive_* event is emitted only by the delivering step of a
\* send, and carries the message that this very send stored).
C22_MemStep ==
  /\ (server = "mem" /\ ev'.type = "send_private")
     => LET sent == out'[Len(out')].data
        IN /\ MapHas(messageHistory', ev'.arg)
           /\ Last(MapGet(messageHistory', ev'.arg)) = sent
           /\ ~MemOnline(ev'.arg) => Pushed(out') = {}
           /\ \A k \in Pushed(out') : out'[k].data = sent
  /\ (server = "mem" /\ ev'.type = "send_group" /\ ev'.ok)
     => /\ TargetsOf(out', "receive_group")
             \subseteq {MemHandle(m) : m \in {x \in MemMembers(ev'.arg) : MemOnline(x)}}
        /\ \A k \in Pushed(out') :
             out'[k].data = Last(MapGet(rooms', ev'.arg).messages)
  /\ (server = "mem" /\ Pushed(out') # {})
     => ev'.type \in {"send_private", "send_group"}
C22_DbStep ==
  /\ (server = "db" /\ ev'.type = "send_private" /\ ev'.step = "save" /\ ev'.ok)
     => /\ Len(dbMessages') = Len(dbMessages) + 1
        /\ ~MapHas(connectedUsers, findByUsername(ev'.arg)) => Pushed(out') = {}
        /\ \A k \in Pushed(out') : out'[k].data.id = Last(dbMessages').id
  /\ (server = "db" /\ ev'.type = "send_group" /\ ev'.step = "fanout")
     => /\ TargetsOf(out', "receive_group")
             \subseteq {MapGet(connectedUsers, m) :
                          m \in {x \in DbMembersOf(ev'.arg) : MapHas(connectedUsers, x)}}
        /\ \A k \in Pushed(out') : out'[k].data.id \in StoredIds
  /\ (server = "db" /\ Pushed(out') # {})
     => \/ ev'.type = "send_private" /\ ev'.step = "save" /\ ev'.ok
        \/ ev'.type = "send_group" /\ ev'.step = "fanout"
C22_Step == C22_MemStep /\ C22_DbStep
C22_OfflineStoredNeverPushed == [][C22_Step]_vars
C22_Witness ==
  /\ server = "mem" /\ ev.type = "send_private"
  /\ ev.arg # ev.user
  /\ MapHas(users, ev.arg)
  /\ ~MemOnline(ev.arg)
  /\ MapHas(messageHistory, ev.arg)
  /\ Last(MapGet(messageHistory, ev.arg)) = out[Len(out)].data
  /\ Pushed(out) = {}

(* ------------------------------ C25 ----------------------------------- *)
SamePair(a, b) == {a.from, a.to} = {b.from, b.to}
\* C25: within one conversation (the private messages between two users, the
\* messages of one group room) the message ids are pairwise distinct and
\* strictly increase in append order, also for messages appended within the
\* same clock tick.
C25_IdsIncreaseInAppendOrder ==
  /\ \A i \in 1..Len(messageHistory) :
       LET q == messageHistory[i].v
       IN \A a, b \in 1..Len(q) :
            (a < b /\ SamePair(q[a], q[b])) => IdLess(q[a].id, q[b].id)
  /\ \A i \in 1..Len(rooms) :
       LET q == rooms[i].v.messages
       IN \A a, b \in 1..Len(q) : a < b => IdLess(q[a].id, q[b].id)
  /\ \A a, b \in 1..Len(dbMessages) :
       (a < b /\ dbMessages[a].room_id = dbMessages[b].room_id)
       => dbMessages[a].id < dbMessages[b].id
\* what does hold in the in-memory server: ids grow from one clock tick to the next
C25_IdsIncreaseAcrossTicks ==
  \A i \in 1..Len(messageHistory) :
    LET q == messageHistory[i].v
    IN \A a, b \in 1..Len(q) :
         (a < b /\ q[a].timestamp < q[b].timestamp) => IdLess(q[a].id, q[b].id)

(* ------------------------------ C26 ----------------------------------- *)
UserLists(o) == {k \in 1..Len(o) : o[k].ev = "user_list"}
ListedOffline(list, name) ==
  \E j \in 1..Len(list) : list[j].username = name /\ ~list[j].online
\* C26: a presence refresh emits user_list only towards users that are
\* online; a known user that is offline is no target of the refresh, and it
\* is listed, with online = false, in the list sent to every other user.
C26_MemStep ==
  server = "mem" =>
    \A k \in UserLists(out') :
      /\ \E i \in 1..Len(users') :
           users'[i].v.online /\ users'[i].v.socketId = out'[k].to
      /\ \A i \in 1..Len(users') :
           (~users'[i].v.online /\ users'[i].v.socketId # out'[k].to)
           => ListedOffline(out'[k].data, users'[i].k)
C26_DbStep ==
  server = "db" =>
    \A k \in UserLists(out') :
      /\ conn'[out'[k].to] = "open"
      /\ \A u \in UserIds :
           ~dbUsers'[u].is_online => ListedOffline(out'[k].data, dbUsers'[u].username)
C26_Step == C26_MemStep /\ C26_DbStep
C26_RefreshTargetsOnlineOnly == [][C26_Step]_vars
\* the half of C26 that the in-memory server keeps: offline users stay listed
C26_MemListStep ==
  server = "mem" =>
    \A k \in UserLists(out') :
      \A i \in 1..Len(users') :
        (~users'[i].v.online /\ users'[i].v.socketId # out'[k].to)
        => ListedOffline(out'[k].data, users'[i].k)
C26_MemOfflineStayListed == [][C26_MemListStep]_vars

(* ------------------------------ C36 ----------------------------------- *)
\* the requests of ip let through in the windowMs milliseconds that end at t
PassedIn(log, ip, t) ==
  {k \in 1..Len(log) : log[k][1] = ip /\ log[k][2] > t - limits.windowMs /\ log[k][2] <= t}
\* C36: for every client IP, rateLimiter lets at most maxRequests requests
\* through in any window of windowMs milliseconds; a request answered with
\* 429 is not recorded against the IP; and whether a request of one IP gets
\* through depends on the requests of that IP alone.
C36_Step ==
  /\ \A ip \in Ips : \A t \in 0..MaxRateClock :
       Cardinality(PassedIn(passed', ip, t)) <= limits.maxRequests
  /\ (ev'.type = "request" /\ ~ev'.ok)
     => /\ passed' = passed
        /\ \A i \in 1..Len(requests') :
             requests'[i].k = ev'.user
             => Len(requests'[i].v) <= limits.maxRequests
                /\ \A j \in 1..Len(requests'[i].v) :
                     \E k \in 1..Len(passed) : passed[k] = <<ev'.user, requests'[i].v[j]>>
  /\ ev'.type = "request"
     => (ev'.ok <=> Cardinality(PassedIn(passed, ev'.user, now)) < limits.maxRequests)
C36_RateLimitPerIp == [][C36_Step]_vars
C36_Witness ==
  /\ ev.type = "request" /\ ~ev.ok
  /\ Cardinality(PassedIn(passed, ev.user, now)) = limits.maxRequests
  /\ \E k \in 1..Len(passed) : passed[k][1] # ev.user
  /\ \E k \in 1..Len(passed) : passed[k][1] = ev.user /\ passed[k][2] < now

(* ------------------------------ C32 ----------------------------------- *)
\* C32: once startup has completed, a socket handshake or HTTP request whose
\* token the auth service validates is admitted, with socket.user / req.user
\* set to the validated user; one with no token, or with a token the auth
\* service rejects, is refused.
C32_Step ==
  ev'.type \in {"handshake", "http"}
  => IF ev'.arg # NoToken /\ validateToken(ev'.arg) # 0
     THEN /\ ev'.ok
          /\ ev'.user = Username(validateToken(ev'.arg))
          /\ ev'.type = "handshake"
             => conn'[ev'.sock] = "open" /\ sockUser'[ev'.sock] = validateToken(ev'.arg)
     ELSE /\ ~ev'.ok
          /\ ev'.type = "handshake" => conn'[ev'.sock] # "open"
C32_ValidTokensAdmitted == [][C32_Step]_vars
\* the half of C32 that holds: nothing gets in without a token the service accepts
C32_RefusedStep ==
  (ev'.type \in {"handshake", "http"} /\ ev'.ok)
  => ev'.arg # NoToken /\ validateToken(ev'.arg) # 0
C32_BadTokensRefused == [][C32_RefusedStep]_vars

(* ------------------------------ C33 ----------------------------------- *)
JoinByMember(e) ==
  IF server = "mem"
  THEN MapHas(rooms, e.arg) /\ e.user \in MemMembers(e.arg)
  ELSE isMember(e.arg, sockUser[e.sock])
\* C33: room_history for room R is delivered only to a connection whose user
\* is a member of R: a join_room for a room the user does not belong to emits
\* no room_history and does not put the socket into R's socket.io room.
C33_Step ==
  (ev'.type = "join_room" /\ ev'.step # "start" /\ ~JoinByMember(ev'))
  => /\ CountAll(out', "room_history") = 0
     /\ <<ev'.sock, ev'.arg>> \notin joined'
C33_HistoryOnlyToMembers == [][C33_Step]_vars
\* the database-backed join_room does test membership
C33_DbStep == server = "db" => C33_Step
C33_DbJoinChecked == [][C33_DbStep]_vars

(* ------------------------------ C34 ----------------------------------- *)
GroupNotices(o) == {k \in 1..Len(o) : o[k].ev = "group_created"}
StoredAfter(roomId) ==
  IF server = "mem" THEN SetOf(MapGet(rooms', roomId).members)
  ELSE {Username(u) : u \in {x \in UserIds : <<roomId, x>> \in dbMembers'}}
\* C34: the members list carried by a group_created event is the member set
\* stored for the new room once the event is emitted: it names no user that
\* was not added to the room, and it names no user twice.
C34_Step ==
  \A k \in GroupNotices(out') :
    /\ SetOf(out'[k].data.members) = StoredAfter(out'[k].data.roomId)
    /\ NoRepeat(out'[k].data.members)
C34_NoticeNamesStoredMembers == [][C34_Step]_vars

(* ------------------------------ C35 ----------------------------------- *)
Involves(msg, k) == msg.from = k \/ msg.to = k
InboxEvents(o) == {j \in 1..Len(o) : o[j].ev \in {"message_history", "search_results"}}
\* C35: in the in-memory server every message stored in the inbox keyed by k
\* has from = k or to = k, and so the message_history and search_results sent
\* to a connection hold only messages that its user sent or was sent.
C35_Step ==
  /\ \A i \in 1..Len(messageHistory') :
       \A j \in 1..Len(messageHistory'[i].v) :
         Involves(messageHistory'[i].v[j], messageHistory'[i].k)
  /\ \A e \in InboxEvents(out') :
       \A j \in 1..Len(out'[e].data) :
         Involves(out'[e].data[j], currentUser'[out'[e].to])
C35_InboxHoldsOwnMessages == [][C35_Step]_vars
C35_Witness ==
  /\ ev.type = "search_messages" /\ ev.user # Null
  /\ \E e \in InboxEvents(out) : out[e].ev = "search_results" /\ out[e].data # <<>>
  /\ \E i \in 1..Len(messageHistory) : \E j \in 1..Len(messageHistory[i].v) :
       ~Involves(messageHistory[i].v[j], ev.user)

(* ------------------------------ C31 ----------------------------------- *)
LiveFor(u) == \E s \in Sockets : conn[s] = "open" /\ sockUser[s] = u
\* nothing of the closed socket s is left: the registry does not map its user
\* to s, and the user is flagged online only if it has a live connection
Cleared(s) ==
  /\ ~(MapHas(connectedUsers, sockUser[s]) /\ MapGet(connectedUsers, sockUser[s]) = s)
  /\ dbUsers[sockUser[s]].is_online => LiveFor(sockUser[s])
\* C31: in the database-backed server, after a socket has disconnected its
\* user is eventually removed from connectedUsers and marked offline (unless
\* another connection of the user is live), also when the socket disconnects
\* while the connection handler is still awaiting.
C31_DisconnectEventuallyCleared ==
  \A s \in Sockets : (conn[s] = "closed") ~> Cleared(s)
\* when the disconnect listener was registered in time, the registry entry goes
C31_ListenedDisconnectCleared ==
  \A s \in Sockets :
    (ev.type = "disconnect" /\ ev.step = "start" /\ ev.sock = s /\ ev.ok)
    ~> ~(MapHas(connectedUsers, sockUser[s]) /\ MapGet(connectedUsers, sockUser[s]) = s)

====
